---- MODULE Spec2Model ----
(***************************************************************************)
(* Real-time customer-behaviour pipeline: the enrichment cache and the     *)
(* rate limiter of ExternalAPIManager (external_apis/api_manager.py), the  *)
(* running and windowed metrics of EnhancedRealTimeDataProcessor           *)
(* (real_time/streaming_processor.py) and the batch worker of              *)
(* BigQueryStreaming (real_time/bigquery_streaming.py).                    *)
(*                                                                         *)
(* Each component has its own specification over the shared variables; the *)
(* variables of the other components keep their initial values.  Time is    *)
(* the integer number of seconds read by time.time() / datetime.now().     *)
(***************************************************************************)
EXTENDS Integers, Sequences, FiniteSets, TLC

VARIABLES
    now,                \* the wall clock, seconds
    \* ---- ExternalAPIManager: cache
    cache,              \* self.cache: key -> [data, timestamp]
    gcPc,               \* position of the caller of get_cached_or_fetch
    gcKey,              \* cache_key of the call in progress
    gcCallTime,         \* time at which the call in progress tested the cache
    gcPrior,            \* the entry the call in progress found (or NoEntry)
    fetchCount,         \* number of fetch_function invocations per key
    stored,             \* per key: the last value stored and when (history)
    lastCall,           \* the last completed get_cached_or_fetch call
    \* ---- ExternalAPIManager: rate limiter
    last_api_calls,     \* self.last_api_calls: source -> time
    rlThreads,          \* the threads that share the manager
    rlPc,               \* per thread: "idle", "sleep" or "record"
    rlSrc,              \* per thread: api_name of the call in progress
    rlWake,             \* per thread: earliest time at which time.sleep returns
    rlSlept,            \* per thread: the call in progress called time.sleep
    rlFirst,            \* per thread: the call found no entry for its source
    rlReturns,          \* per source: return times of the last two calls
    rlFirstWaited,      \* some call that found no entry for its source slept
    \* ---- EnhancedRealTimeDataProcessor
    interactions_buffer,    \* self.interactions_buffer (deque)
    enrichment_queue,       \* self.enrichment_queue (deque)
    current_metrics,        \* self.current_metrics
    last_update,            \* self.last_update
    added,                  \* the interactions passed to add_interaction, in order
    calcRan,                \* the last step ran calculate_window_metrics
    lastCalc,               \* when calculate_window_metrics was last called
                            \*   (the time of construction before the first call)
    enriched_interactions,  \* self.enriched_interactions (deque)
    ewPc,                   \* position of the enrichment_worker thread
    ewCur,                  \* its local variable interaction
    ewRaisedFor,            \* the interactions enrich_interaction raised for, in order
    \* ---- BigQueryStreaming
    streaming_queue,    \* self.streaming_queue (queue.Queue), oldest first
    is_streaming,       \* self.is_streaming
    swPc,               \* per stream_worker thread: its position
    swBatch,            \* per worker: its local list batch
    swSleep,            \* per worker: seconds left of time.sleep
    swElapsed,          \* per worker: seconds since its last write, or NoTime
    swStartLen,         \* per worker: events queued when its cycle began
                        \*   (0 once the cycle is disturbed)
    swDisturbed,        \* per worker: since its cycle began an event was added
                        \*   or another worker took one (set too in a cycle
                        \*   that found nothing to write)
    nextId,             \* identifier of the next event handed to stream_interaction
    sinkLog,            \* the batches passed to insert_rows_json, in order
    sinkFailed,         \* some write to the Sink has failed
    sinkEarly,          \* some write came less than interval_seconds after the
                        \*   previous write of the same worker
    \* ---- EnhancedRealTimeDataProcessor: the dashboard data and callers of
    \*      add_interaction on several threads
    snapshot,               \* the dict last returned under 'current_metrics'
    snapshotSeen,           \* what could be read through it when it was returned
    aiPc,                   \* per calling thread: its position in add_interaction
    aiEvent,                \* per calling thread: the interaction of its call
    aiRead,                 \* per calling thread: the counter value it has read
    \* ---- ExternalAPIManager: the three lookups and enrich_interaction
    api_keys,           \* weather_api_key, alpha_vantage_key, news_api_key:
                        \*   per source, TRUE when the credential is set
    apiRet,             \* what the last call on the manager returned
    \* ---- RealTimeCustomerSimulator and the dashboard thread that drains it
    is_running,         \* self.is_running
    interaction_queue,  \* self.interaction_queue (queue.Queue), oldest first
    pgPc,               \* per generate_interactions thread: its position
    pgAfterStop,        \* per thread: events it put since stop_streaming was
                        \*   called and start_streaming was not called again
    nextSimId,          \* sequence number of the next event that is generated
    pending             \* new_interactions of process_enhanced_interactions:
                        \*   the events taken and not yet handed to add_interaction

cacheVars == <<cache, gcPc, gcKey, gcCallTime, gcPrior, fetchCount, stored,
               lastCall>>
rateVars  == <<last_api_calls, rlThreads, rlPc, rlSrc, rlWake, rlSlept,
               rlFirst, rlReturns, rlFirstWaited>>
procVars  == <<interactions_buffer, enrichment_queue, current_metrics,
               last_update, added, calcRan, lastCalc>>
sinkVars  == <<streaming_queue, is_streaming, swPc, swBatch, swSleep,
               swElapsed, swStartLen, swDisturbed, nextId, sinkLog, sinkFailed,
               sinkEarly>>
enrichVars == <<enriched_interactions, ewPc, ewCur, ewRaisedFor>>
dashVars  == <<snapshot, snapshotSeen>>
sharedVars == <<aiPc, aiEvent, aiRead>>
apiVars   == <<api_keys, apiRet>>
simVars   == <<is_running, interaction_queue, pgPc, pgAfterStop, nextSimId,
               pending>>
vars == <<now, cacheVars, rateVars, procVars, enrichVars, dashVars, sharedVars,
          sinkVars, apiVars, simVars>>

----------------------------------------------------------------------------
(* Time *)

\* time.time() moves forward by d seconds, up to the horizon max.
Advance(d, max) ==
    /\ now + d <= max
    /\ now' = now + d

----------------------------------------------------------------------------
(* ExternalAPIManager: the response cache *)

cache_duration == 300

CacheTick    == 100      \* granularity of the clock in the cache specification
MaxTimeCache == 700      \* horizon of the clock in the cache specification
MaxFetches   == 3        \* fetch_function invocations per key that are explored

CacheKeys   == {"weather_NY", "stock_SPY"}
FetchValues == {"d1", "d2"}          \* non-empty responses
Empty       == "empty"               \* a falsy response (None, {})
Raised      == "raised"              \* fetch_function raised
NoEntry     == [data |-> Empty, timestamp |-> -1]
NoCall      == [key |-> "none", time |-> 0, done |-> 0, ret |-> Empty,
                fetched |-> FALSE, prior |-> NoEntry]

Truthy(data) == data # Empty

is_cache_valid_ge(cache_key, t) ==
    IF cache_key \notin DOMAIN cache
    THEN FALSE
    ELSE (t - cache[cache_key].timestamp) >= cache_duration

is_cache_valid_le(cache_key, t) ==
    IF cache_key \notin DOMAIN cache
    THEN FALSE
    ELSE (t - cache[cache_key].timestamp) <= cache_duration

is_cache_valid(cache_key, t) ==
    IF cache_key \notin DOMAIN cache
    THEN FALSE
    ELSE (t - cache[cache_key].timestamp) < cache_duration

\* self.cache[cache_key] = {'data': data, 'timestamp': time.time()}
CachePut(c, cache_key, data, t) ==
    [x \in (DOMAIN c) \cup {cache_key} |->
        IF x = cache_key THEN [data |-> data, timestamp |-> t] ELSE c[x]]

\* get_cached_or_fetch, lines 43-44: a live entry is returned at once.
GetCachedHit(k) ==
    /\ gcPc = "idle"
    /\ is_cache_valid(k, now)
    /\ lastCall' = [key |-> k, time |-> now, done |-> now,
                    ret |-> cache[k].data, fetched |-> FALSE,
                    prior |-> stored[k]]
    /\ UNCHANGED <<now, cache, gcPc, gcKey, gcCallTime, gcPrior, fetchCount,
                   stored>>

\* get_cached_or_fetch, lines 43 and 47: no live entry, fetch_function is invoked.
GetCachedMiss(k) ==
    /\ gcPc = "idle"
    /\ ~is_cache_valid(k, now)
    /\ fetchCount[k] < MaxFetches
    /\ gcPc' = "fetching"
    /\ gcKey' = k
    /\ gcCallTime' = now
    /\ gcPrior' = stored[k]
    /\ fetchCount' = [fetchCount EXCEPT ![k] = @ + 1]
    /\ UNCHANGED <<now, cache, stored, lastCall>>

\* get_cached_or_fetch, lines 47-54: fetch_function returns data.
FetchReturns(data) ==
    /\ gcPc = "fetching"
    /\ cache' = IF Truthy(data) THEN CachePut(cache, gcKey, data, now) ELSE cache
    /\ lastCall' = [key |-> gcKey, time |-> gcCallTime, done |-> now,
                    ret |-> data, fetched |-> TRUE, prior |-> gcPrior]
    /\ stored' = IF Truthy(data)
                 THEN [stored EXCEPT ![gcKey] = [data |-> data, timestamp |-> now]]
                 ELSE stored
    /\ gcPc' = "idle"
    /\ UNCHANGED <<now, gcKey, gcCallTime, gcPrior, fetchCount>>

\* get_cached_or_fetch, line 47: fetch_function raises, the call propagates it.
FetchRaises ==
    /\ gcPc = "fetching"
    /\ lastCall' = [key |-> gcKey, time |-> gcCallTime, done |-> now,
                    ret |-> Raised, fetched |-> TRUE, prior |-> gcPrior]
    /\ gcPc' = "idle"
    /\ UNCHANGED <<now, cache, gcKey, gcCallTime, gcPrior, fetchCount, stored>>

TickCache == Advance(CacheTick, MaxTimeCache) /\ UNCHANGED cacheVars

InitCacheVars ==
    /\ cache = <<>>
    /\ gcPc = "idle"
    /\ gcKey = "none"
    /\ gcCallTime = 0
    /\ gcPrior = NoEntry
    /\ fetchCount = [k \in CacheKeys |-> 0]
    /\ stored = [k \in CacheKeys |-> NoEntry]
    /\ lastCall = NoCall

----------------------------------------------------------------------------
(* ExternalAPIManager: the rate limiter *)

MaxTimeRate == 4         \* horizon of the clock in the rate-limiter specifications

RateSources == {"news", "geo"}          \* one configured source, one without a limit
NoTime      == -1
NoReturns   == [prev |-> NoTime, last |-> NoTime]

\* self.rate_limits
rate_limits == [weather |-> 1, news |-> 2, stocks |-> 1]

\* self.rate_limits.get(api_name, 1)
min_interval(api_name) ==
    IF api_name \in DOMAIN rate_limits THEN rate_limits[api_name] ELSE 1

\* if time_since_last < min_interval
NeedsWait_gt(time_since_last, interval) == time_since_last > interval

NeedsWait(time_since_last, interval) == time_since_last < interval

\* respect_rate_limit, lines 58-63: read the last call time and decide to sleep.
RLCall(t, api_name) ==
    /\ rlPc[t] = "idle"
    /\ rlSrc' = [rlSrc EXCEPT ![t] = api_name]
    /\ IF api_name \in DOMAIN last_api_calls
       THEN LET time_since_last == now - last_api_calls[api_name]
            IN  IF NeedsWait(time_since_last, min_interval(api_name))
                THEN /\ rlPc' = [rlPc EXCEPT ![t] = "sleep"]
                     /\ rlWake' = [rlWake EXCEPT ![t] =
                                     now + (min_interval(api_name) - time_since_last)]
                     /\ rlSlept' = [rlSlept EXCEPT ![t] = TRUE]
                     /\ rlFirst' = [rlFirst EXCEPT ![t] = FALSE]
                ELSE /\ rlPc' = [rlPc EXCEPT ![t] = "record"]
                     /\ rlSlept' = [rlSlept EXCEPT ![t] = FALSE]
                     /\ rlFirst' = [rlFirst EXCEPT ![t] = FALSE]
                     /\ UNCHANGED rlWake
       ELSE /\ rlPc' = [rlPc EXCEPT ![t] = "record"]
            /\ rlSlept' = [rlSlept EXCEPT ![t] = FALSE]
            /\ rlFirst' = [rlFirst EXCEPT ![t] = TRUE]
            /\ UNCHANGED rlWake
    /\ UNCHANGED <<now, last_api_calls, rlThreads, rlReturns, rlFirstWaited>>

\* respect_rate_limit, line 63: time.sleep returns, no earlier than asked.
RLWake(t) ==
    /\ rlPc[t] = "sleep"
    /\ now >= rlWake[t]
    /\ rlPc' = [rlPc EXCEPT ![t] = "record"]
    /\ UNCHANGED <<now, last_api_calls, rlThreads, rlSrc, rlWake, rlSlept,
                   rlFirst, rlReturns, rlFirstWaited>>

\* respect_rate_limit, line 65: record the call time and return.
RLRecord(t) ==
    /\ rlPc[t] = "record"
    /\ last_api_calls' = [x \in (DOMAIN last_api_calls) \cup {rlSrc[t]} |->
                             IF x = rlSrc[t] THEN now ELSE last_api_calls[x]]
    /\ rlReturns' = [rlReturns EXCEPT ![rlSrc[t]] =
                        [prev |-> @.last, last |-> now]]
    /\ rlFirstWaited' = (rlFirstWaited \/ (rlFirst[t] /\ rlSlept[t]))
    /\ rlPc' = [rlPc EXCEPT ![t] = "idle"]
    /\ UNCHANGED <<now, rlThreads, rlSrc, rlWake, rlSlept, rlFirst>>

TickRate == Advance(1, MaxTimeRate) /\ UNCHANGED rateVars

InitRateVars(threads) ==
    /\ last_api_calls = <<>>
    /\ rlThreads = threads
    /\ rlPc = [t \in threads |-> "idle"]
    /\ rlSrc = [t \in threads |-> "news"]
    /\ rlWake = [t \in threads |-> 0]
    /\ rlSlept = [t \in threads |-> FALSE]
    /\ rlFirst = [t \in threads |-> FALSE]
    /\ rlReturns = [s \in RateSources |-> NoReturns]
    /\ rlFirstWaited = FALSE

----------------------------------------------------------------------------
(* EnhancedRealTimeDataProcessor: running totals and window metrics *)

window_size   == 5       \* window_size_minutes
buffer_maxlen == 10000   \* deque(maxlen=10000)

MetricsTick    == 60     \* granularity of the clock in the metrics specification
MaxTimeMetrics == 360    \* horizon of the clock in the metrics specification
MaxEvents      == 3      \* add_interaction calls that are explored

\* The interactions handed to add_interaction.
EventKinds ==
    { [customer_id |-> "c1", touchpoint |-> "website", revenue |-> 0,
       session_duration_minutes |-> 10],
      [customer_id |-> "c2", touchpoint |-> "email", revenue |-> 150,
       session_duration_minutes |-> 30],
      [customer_id |-> "c1", touchpoint |-> "website", revenue |-> 80,
       session_duration_minutes |-> 20] }

\* interaction['processed_timestamp'] = datetime.now(): the other keys of the
\* dict stay as they are.
Stamp(e, t) ==
    [x \in (DOMAIN e) \cup {"processed_timestamp"} |->
        IF x = "processed_timestamp" THEN t ELSE e[x]]

\* deque.append on a deque with a maxlen: the oldest item falls out when full.
DequeAppend(q, x, maxlen) ==
    IF Len(q) >= maxlen THEN Append(Tail(q), x) ELSE Append(q, x)

\* A float that is a quotient of two integers, kept as the quotient.
Ratio(n, d) == [num |-> n, den |-> d]
RatioEq(a, b) == a.num * b.den = b.num * a.den

RECURSIVE SumRevenue(_)
SumRevenue(q) == IF q = <<>> THEN 0 ELSE Head(q).revenue + SumRevenue(Tail(q))

RECURSIVE SumDuration(_)
SumDuration(q) ==
    IF q = <<>> THEN 0
    ELSE Head(q).session_duration_minutes + SumDuration(Tail(q))

\* (datetime.now() - self.last_update).seconds: the seconds field of a
\* timedelta, which leaves out whole days.
TimedeltaSeconds(delta) == delta % 86400

\* calculate_window_metrics, lines 269-273, without the cutoff.
RecentInteractions_all(buffer, t) == buffer

\* calculate_window_metrics, lines 269-273.
RecentInteractions(buffer, t) ==
    LET cutoff_time == t - 60 * window_size
        InWindow(interaction) == interaction.processed_timestamp > cutoff_time
    IN  SelectSeq(buffer, InWindow)

\* len(df[df['revenue'] > 0])
Conversions(df) ==
    LET Converted(interaction) == interaction.revenue > 0
    IN  Len(SelectSeq(df, Converted))

\* calculate_window_metrics: the metrics it leaves behind.  Variant that sets
\* the two statistics to 0 when it finds nothing in the window.
WindowMetricsAfter_reset(m, buffer, t) ==
    LET recent_interactions == RecentInteractions(buffer, t)
    IN  IF recent_interactions = <<>>
        THEN [m EXCEPT !.conversion_rate_window = Ratio(0, 1),
                       !.avg_session_duration = Ratio(0, 1)]
        ELSE [m EXCEPT
                !.conversion_rate_window =
                    Ratio(Conversions(recent_interactions) * 100,
                          Len(recent_interactions)),
                !.avg_session_duration =
                    Ratio(SumDuration(recent_interactions),
                          Len(recent_interactions))]

\* calculate_window_metrics: the metrics it leaves behind.
WindowMetricsAfter(m, buffer, t) ==
    IF buffer = <<>>
    THEN m
    ELSE LET recent_interactions == RecentInteractions(buffer, t)
         IN  IF recent_interactions = <<>>
             THEN m
             ELSE [m EXCEPT
                     !.conversion_rate_window =
                         Ratio(Conversions(recent_interactions) * 100,
                               Len(recent_interactions)),
                     !.avg_session_duration =
                         Ratio(SumDuration(recent_interactions),
                               Len(recent_interactions))]

\* update_real_time_metrics, lines 253-256, with the increment left out for a
\* touchpoint seen for the first time.
TouchpointCountsAfter_noinc(counts, touchpoint) ==
    [x \in (DOMAIN counts) \cup {touchpoint} |->
        IF x \in DOMAIN counts
        THEN (IF x = touchpoint THEN counts[x] + 1 ELSE counts[x])
        ELSE 0]

\* update_real_time_metrics, lines 253-256.
TouchpointCountsAfter(counts, touchpoint) ==
    LET withKey == [x \in (DOMAIN counts) \cup {touchpoint} |->
                       IF x \in DOMAIN counts THEN counts[x] ELSE 0]
    IN  [withKey EXCEPT ![touchpoint] = @ + 1]

\* update_real_time_metrics, lines 246-256: the running totals.
TotalsAfter(m, interaction) ==
    [m EXCEPT
        !.total_interactions_today = @ + 1,
        !.total_revenue_today = @ + interaction.revenue,
        !.active_customers = @ \cup {interaction.customer_id},
        !.touchpoint_counts = TouchpointCountsAfter(@, interaction.touchpoint)]

\* add_interaction(interaction), with update_real_time_metrics and the
\* calculate_window_metrics call it makes once a minute.
AddInteraction(e) ==
    /\ Len(added) < MaxEvents
    /\ LET interaction == Stamp(e, now)
           buffer == DequeAppend(interactions_buffer, interaction, buffer_maxlen)
           totals == TotalsAfter(current_metrics, interaction)
           due == TimedeltaSeconds(now - last_update) >= 60
       IN  /\ interactions_buffer' = buffer
           /\ enrichment_queue' = Append(enrichment_queue, interaction)
           /\ current_metrics' =
                 IF due THEN WindowMetricsAfter(totals, buffer, now) ELSE totals
           /\ last_update' = IF due THEN now ELSE last_update
           /\ calcRan' = due
           /\ lastCalc' = IF due THEN now ELSE lastCalc
           /\ added' = Append(added, interaction)
    /\ UNCHANGED now

\* calculate_window_metrics(), called on its own.
CalculateWindowMetrics ==
    /\ current_metrics' =
          WindowMetricsAfter(current_metrics, interactions_buffer, now)
    /\ calcRan' = TRUE
    /\ lastCalc' = now
    /\ UNCHANGED <<now, interactions_buffer, enrichment_queue, last_update, added>>

TickMetrics ==
    /\ Advance(MetricsTick, MaxTimeMetrics)
    /\ calcRan' = FALSE
    /\ UNCHANGED <<interactions_buffer, enrichment_queue, current_metrics,
                   last_update, lastCalc, added>>

InitProcVars ==
    /\ interactions_buffer = <<>>
    /\ enrichment_queue = <<>>
    /\ current_metrics =
          [total_interactions_today |-> 0,
           total_revenue_today |-> 0,
           active_customers |-> {},
           touchpoint_counts |-> <<>>,
           conversion_rate_window |-> Ratio(0, 1),
           avg_session_duration |-> Ratio(0, 1),
           weather_impact |-> <<>>,
           market_correlation |-> 0,
           sentiment_impact |-> <<>>,
           economic_factors |-> <<>>]
    /\ last_update = 0
    /\ added = <<>>
    /\ calcRan = FALSE
    /\ lastCalc = 0

----------------------------------------------------------------------------
(* EnhancedRealTimeDataProcessor: the enrichment worker and the external    *)
(* metrics.  market_correlation is kept as a whole number of tenths.        *)

enriched_maxlen == 5000  \* deque(maxlen=5000)

\* What enrich_interaction read from the external sources for one interaction.
ExternalReadings ==
    { [weather_condition |-> "Clear", market_sentiment |-> "positive",
       news_sentiment |-> "positive"],
      [weather_condition |-> "Rain", market_sentiment |-> "negative",
       news_sentiment |-> "neutral"],
      [weather_condition |-> "Clear", market_sentiment |-> "negative",
       news_sentiment |-> "neutral"] }

\* enriched = interaction.copy(); enriched.update({...})
DictUpdate(d, u) ==
    [x \in (DOMAIN d) \cup (DOMAIN u) |-> IF x \in DOMAIN u THEN u[x] ELSE d[x]]

\* dict.get(key, default)
DictGet(d, key, default) == IF key \in DOMAIN d THEN d[key] ELSE default

\* update_external_metrics, lines 84-94.
WeatherImpactAfter(impact, weather_condition, revenue) ==
    LET withKey == [x \in (DOMAIN impact) \cup {weather_condition} |->
                       IF x \in DOMAIN impact THEN impact[x]
                       ELSE [total_revenue |-> 0, interaction_count |-> 0,
                             avg_revenue |-> Ratio(0, 1)]]
        stats == withKey[weather_condition]
    IN  [withKey EXCEPT ![weather_condition] =
            [total_revenue |-> stats.total_revenue + revenue,
             interaction_count |-> stats.interaction_count + 1,
             avg_revenue |-> Ratio(stats.total_revenue + revenue,
                                   stats.interaction_count + 1)]]

\* update_external_metrics, lines 97-101.  Variant that takes a tenth away
\* when the market is down and the interaction brought revenue.
MarketCorrelationAfter_signed(correlation, market_sentiment, revenue) ==
    IF market_sentiment = "positive" /\ revenue > 0 THEN correlation + 1
    ELSE IF market_sentiment = "negative" /\ revenue = 0 THEN correlation + 1
    ELSE IF market_sentiment = "negative" THEN correlation - 1
    ELSE correlation

MarketCorrelationAfter(correlation, market_sentiment, revenue) ==
    IF market_sentiment = "positive" /\ revenue > 0 THEN correlation + 1
    ELSE IF market_sentiment = "negative" /\ revenue = 0 THEN correlation + 1
    ELSE correlation

\* update_external_metrics, lines 104-116.
SentimentImpactAfter(impact, news_sentiment, revenue) ==
    LET withKey == [x \in (DOMAIN impact) \cup {news_sentiment} |->
                       IF x \in DOMAIN impact THEN impact[x]
                       ELSE [conversion_rate |-> Ratio(0, 1),
                             avg_revenue |-> Ratio(0, 1), count |-> 0]]
        stats == withKey[news_sentiment]
        count == stats.count + 1
        rate  == stats.conversion_rate
        avg   == stats.avg_revenue
    IN  [withKey EXCEPT ![news_sentiment] =
            [conversion_rate |->
                 IF revenue > 0
                 THEN Ratio(rate.num * (count - 1) + rate.den, rate.den * count)
                 ELSE rate,
             avg_revenue |->
                 Ratio(avg.num * (count - 1) + revenue * avg.den, avg.den * count),
             count |-> count]]

\* update_external_metrics(enriched_interaction)
ExternalMetricsAfter(m, enriched_interaction) ==
    LET weather_condition == DictGet(enriched_interaction, "weather_condition", "Unknown")
        revenue == DictGet(enriched_interaction, "revenue", 0)
        market_sentiment == DictGet(enriched_interaction, "market_sentiment", "neutral")
        news_sentiment == DictGet(enriched_interaction, "news_sentiment", "neutral")
    IN  [m EXCEPT
            !.weather_impact = WeatherImpactAfter(@, weather_condition, revenue),
            !.market_correlation =
                MarketCorrelationAfter(@, market_sentiment, revenue),
            !.sentiment_impact = SentimentImpactAfter(@, news_sentiment, revenue)]

\* The interaction the worker takes next.  Variant that takes the newest one.
NextToEnrich_pop(q) == q[Len(q)]

\* self.enrichment_queue.popleft()
NextToEnrich(q) == Head(q)

\* The queue after the worker took x.  Variant that empties the queue.
WithoutTaken_clear(q, x) == <<>>

\* The queue without the interaction x that was taken from it.
WithoutTaken(q, x) ==
    IF x = Head(q) THEN Tail(q) ELSE SubSeq(q, 1, Len(q) - 1)

\* except Exception: self.enriched_interactions.append(interaction)
AfterEnrichRaised(enriched, interaction) ==
    DequeAppend(enriched, interaction, enriched_maxlen)

\* Where the worker goes after the try statement.  Variant in which the
\* exception ends the thread.
AfterEnrichPc_unhandled(raised) == IF raised THEN "done" ELSE "loop"

AfterEnrichPc(raised) == "loop"

\* enrichment_worker, lines 51-53: the queue is not empty, popleft().  (When it
\* is empty the worker sleeps a second and tests again.)
EWPop ==
    /\ ewPc = "loop"
    /\ enrichment_queue # <<>>
    /\ ewCur' = NextToEnrich(enrichment_queue)
    /\ enrichment_queue' = WithoutTaken(enrichment_queue, NextToEnrich(enrichment_queue))
    /\ ewPc' = "enrich"
    /\ UNCHANGED <<interactions_buffer, current_metrics, last_update, lastCalc, added,
                   calcRan, enriched_interactions, ewRaisedFor>>

\* enrichment_worker, lines 54-57 and 63: enrich_interaction returns, the
\* enriched interaction is appended and the external metrics are updated.
EWEnriched(reading) ==
    /\ ewPc = "enrich"
    /\ LET enriched == DictUpdate(ewCur, reading)
       IN  /\ enriched_interactions' =
                 DequeAppend(enriched_interactions, enriched, enriched_maxlen)
           /\ current_metrics' = ExternalMetricsAfter(current_metrics, enriched)
    /\ ewPc' = AfterEnrichPc(FALSE)
    /\ UNCHANGED <<interactions_buffer, enrichment_queue, last_update, lastCalc, added,
                   calcRan, ewCur, ewRaisedFor>>

\* enrichment_worker, lines 55 and 58-63: enrich_interaction raises, the
\* interaction is appended as it came.
EWRaised ==
    /\ ewPc = "enrich"
    /\ enriched_interactions' = AfterEnrichRaised(enriched_interactions, ewCur)
    /\ ewRaisedFor' = Append(ewRaisedFor, ewCur)
    /\ ewPc' = AfterEnrichPc(TRUE)
    /\ UNCHANGED <<interactions_buffer, enrichment_queue, current_metrics,
                   last_update, lastCalc, added, calcRan, ewCur>>

NoInteraction == <<>>

InitEnrichVars ==
    /\ enriched_interactions = <<>>
    /\ ewPc = "loop"
    /\ ewCur = NoInteraction
    /\ ewRaisedFor = <<>>

----------------------------------------------------------------------------
(* EnhancedRealTimeDataProcessor: the enrichment worker statement by        *)
(* statement, as the other threads see it                                   *)
(*                                                                          *)
(* After enrich_interaction has returned the worker is at "new_condition"   *)
(* (lines 56 done, 84 next), "add_revenue" (line 92 next), "add_count"      *)
(* (line 93), "average" (line 94) or "sentiment" (lines 97-116).            *)
(*                                                                          *)
(* An interaction whose 'revenue' is not a number (None, a text) has the    *)
(* key revenue_text in place of revenue.                                    *)

MaxStatementEvents == 2  \* add_interaction calls that are explored statement
                         \*   by statement

TextRevenueKinds ==
    { [customer_id |-> "c3", touchpoint |-> "store", revenue_text |-> "80",
       session_duration_minutes |-> 5] }

RevenueIsNumber(interaction) == "revenue_text" \notin DOMAIN interaction

\* The worker's local variable enriched: the item it appended last.
EnrichedLocal == enriched_interactions[Len(enriched_interactions)]

\* update_external_metrics, lines 84-89: the entry of a condition seen for
\* the first time.
WithCondition(impact, weather_condition) ==
    [x \in (DOMAIN impact) \cup {weather_condition} |->
        IF x \in DOMAIN impact THEN impact[x]
        ELSE [total_revenue |-> 0, interaction_count |-> 0,
              avg_revenue |-> Ratio(0, 1)]]

\* add_interaction(interaction) with a revenue that is not a number: lines
\* 70-74 and 246 run, line 247 raises TypeError and the call ends there.
AddInteractionRaises(e) ==
    /\ Len(added) < MaxEvents
    /\ ~RevenueIsNumber(e)
    /\ LET interaction == Stamp(e, now)
       IN  /\ interactions_buffer' =
                 DequeAppend(interactions_buffer, interaction, buffer_maxlen)
           /\ enrichment_queue' = Append(enrichment_queue, interaction)
           /\ added' = Append(added, interaction)
    /\ current_metrics' =
          [current_metrics EXCEPT !.total_interactions_today = @ + 1]
    /\ calcRan' = FALSE
    /\ UNCHANGED <<now, last_update, lastCalc>>

\* enrichment_worker, lines 55-56: enrich_interaction returns and the enriched
\* interaction is appended.
EWAppendEnriched(reading) ==
    /\ ewPc = "enrich"
    /\ enriched_interactions' =
          DequeAppend(enriched_interactions, DictUpdate(ewCur, reading),
                      enriched_maxlen)
    /\ ewPc' = "new_condition"
    /\ UNCHANGED <<procVars, ewCur, ewRaisedFor>>

\* update_external_metrics, lines 81-89.
UEMNewCondition ==
    /\ ewPc = "new_condition"
    /\ current_metrics' =
          [current_metrics EXCEPT
              !.weather_impact =
                  WithCondition(@, DictGet(EnrichedLocal, "weather_condition",
                                           "Unknown"))]
    /\ ewPc' = "add_revenue"
    /\ UNCHANGED <<interactions_buffer, enrichment_queue, last_update, lastCalc,
                   added, calcRan, enriched_interactions, ewCur, ewRaisedFor>>

\* update_external_metrics, line 92: total_revenue += revenue.  With a revenue
\* that is not a number the addition raises TypeError, and the worker's except
\* clause (lines 58-61) appends the interaction as it came.
UEMAddRevenue ==
    /\ ewPc = "add_revenue"
    /\ LET weather_condition ==
               DictGet(EnrichedLocal, "weather_condition", "Unknown")
       IN  IF RevenueIsNumber(EnrichedLocal)
           THEN /\ current_metrics' =
                      [current_metrics EXCEPT
                          !.weather_impact[weather_condition].total_revenue =
                              @ + DictGet(EnrichedLocal, "revenue", 0)]
                /\ ewPc' = "add_count"
                /\ UNCHANGED enriched_interactions
           ELSE /\ enriched_interactions' =
                      AfterEnrichRaised(enriched_interactions, ewCur)
                /\ ewPc' = AfterEnrichPc(TRUE)
                /\ UNCHANGED current_metrics
    /\ UNCHANGED <<interactions_buffer, enrichment_queue, last_update, lastCalc,
                   added, calcRan, ewCur, ewRaisedFor>>

\* update_external_metrics, line 93: interaction_count += 1.
UEMAddCount ==
    /\ ewPc = "add_count"
    /\ LET weather_condition ==
               DictGet(EnrichedLocal, "weather_condition", "Unknown")
       IN  current_metrics' =
               [current_metrics EXCEPT
                   !.weather_impact[weather_condition].interaction_count = @ + 1]
    /\ ewPc' = "average"
    /\ UNCHANGED <<interactions_buffer, enrichment_queue, last_update, lastCalc,
                   added, calcRan, enriched_interactions, ewCur, ewRaisedFor>>

\* update_external_metrics, line 94: avg_revenue = total_revenue /
\* interaction_count.
UEMAverage ==
    /\ ewPc = "average"
    /\ LET weather_condition ==
               DictGet(EnrichedLocal, "weather_condition", "Unknown")
           weather_stats == current_metrics.weather_impact[weather_condition]
       IN  current_metrics' =
               [current_metrics EXCEPT
                   !.weather_impact[weather_condition].avg_revenue =
                       Ratio(weather_stats.total_revenue,
                             weather_stats.interaction_count)]
    /\ ewPc' = "sentiment"
    /\ UNCHANGED <<interactions_buffer, enrichment_queue, last_update, lastCalc,
                   added, calcRan, enriched_interactions, ewCur, ewRaisedFor>>

\* update_external_metrics, lines 97-116, and the worker's time.sleep(1).
UEMSentiment ==
    /\ ewPc = "sentiment"
    /\ LET revenue == DictGet(EnrichedLocal, "revenue", 0)
       IN  current_metrics' =
               [current_metrics EXCEPT
                   !.market_correlation =
                       MarketCorrelationAfter(
                           @, DictGet(EnrichedLocal, "market_sentiment", "neutral"),
                           revenue),
                   !.sentiment_impact =
                       SentimentImpactAfter(
                           @, DictGet(EnrichedLocal, "news_sentiment", "neutral"),
                           revenue)]
    /\ ewPc' = AfterEnrichPc(FALSE)
    /\ UNCHANGED <<interactions_buffer, enrichment_queue, last_update, lastCalc,
                   added, calcRan, enriched_interactions, ewCur, ewRaisedFor>>

----------------------------------------------------------------------------
(* EnhancedRealTimeDataProcessor: the dashboard data                        *)
(*                                                                          *)
(* dict.copy() is a shallow copy: the copy holds the numbers of              *)
(* current_metrics and references to its set and its dicts.  The processor  *)
(* changes those objects in place and never binds the keys to new objects,  *)
(* so a reference is kept as the key it was copied from.                    *)

\* The keys of current_metrics whose values are a set or a dict.
ContainerKeys == {"active_customers", "touchpoint_counts", "weather_impact",
                  "sentiment_impact", "economic_factors"}

Ref(key) == [ref |-> key]

\* self.current_metrics.copy()
ShallowCopy(m) ==
    [k \in DOMAIN m |-> IF k \in ContainerKeys THEN Ref(k) ELSE m[k]]

\* What a reader of the copy finds under each key.
VisibleThrough(copy) ==
    [k \in DOMAIN copy |->
        IF k \in ContainerKeys THEN current_metrics[copy[k].ref] ELSE copy[k]]

NoSnapshot == <<>>

\* get_real_time_dashboard_data() / get_empty_dashboard_data(): the entry
\* 'current_metrics' of the dict they return.
GetRealTimeDashboardData ==
    /\ snapshot' = ShallowCopy(current_metrics)
    /\ snapshotSeen' = current_metrics
    /\ UNCHANGED <<now, procVars, enrichVars>>

InitDashVars ==
    /\ snapshot = NoSnapshot
    /\ snapshotSeen = NoSnapshot

----------------------------------------------------------------------------
(* EnhancedRealTimeDataProcessor: add_interaction called by several threads *)
(*                                                                          *)
(* d[key] += x reads d[key], adds and writes d[key]; another thread can run *)
(* between the read and the write.                                          *)

AddThreads == {1, 2}

\* add_interaction, lines 70-74.
AIBegin(t, e) ==
    /\ aiPc[t] = "idle"
    /\ Len(added) < MaxEvents
    /\ LET interaction == Stamp(e, now)
       IN  /\ interactions_buffer' =
                 DequeAppend(interactions_buffer, interaction, buffer_maxlen)
           /\ enrichment_queue' = Append(enrichment_queue, interaction)
           /\ added' = Append(added, interaction)
           /\ aiEvent' = [aiEvent EXCEPT ![t] = interaction]
    /\ aiPc' = [aiPc EXCEPT ![t] = "read_count"]
    /\ UNCHANGED <<now, current_metrics, last_update, lastCalc, calcRan, aiRead>>

\* update_real_time_metrics, line 246: total_interactions_today is read.
AIReadCount(t) ==
    /\ aiPc[t] = "read_count"
    /\ aiRead' = [aiRead EXCEPT ![t] = current_metrics.total_interactions_today]
    /\ aiPc' = [aiPc EXCEPT ![t] = "write_count"]
    /\ UNCHANGED <<now, procVars, aiEvent>>

\* update_real_time_metrics, line 246: total_interactions_today is written.
AIWriteCount(t) ==
    /\ aiPc[t] = "write_count"
    /\ current_metrics' =
          [current_metrics EXCEPT !.total_interactions_today = aiRead[t] + 1]
    /\ aiPc' = [aiPc EXCEPT ![t] = "read_revenue"]
    /\ UNCHANGED <<now, interactions_buffer, enrichment_queue, last_update, lastCalc,
                   added, calcRan, aiEvent, aiRead>>

\* update_real_time_metrics, line 247: total_revenue_today is read.
AIReadRevenue(t) ==
    /\ aiPc[t] = "read_revenue"
    /\ aiRead' = [aiRead EXCEPT ![t] = current_metrics.total_revenue_today]
    /\ aiPc' = [aiPc EXCEPT ![t] = "write_revenue"]
    /\ UNCHANGED <<now, procVars, aiEvent>>

\* update_real_time_metrics, line 247: total_revenue_today is written.
AIWriteRevenue(t) ==
    /\ aiPc[t] = "write_revenue"
    /\ current_metrics' =
          [current_metrics EXCEPT
              !.total_revenue_today =
                  aiRead[t] + DictGet(aiEvent[t], "revenue", 0)]
    /\ aiPc' = [aiPc EXCEPT ![t] = "rest"]
    /\ UNCHANGED <<now, interactions_buffer, enrichment_queue, last_update, lastCalc,
                   added, calcRan, aiEvent, aiRead>>

\* update_real_time_metrics, lines 250-261: the customer, the touchpoint and,
\* once a minute, calculate_window_metrics; add_interaction returns.
AIRest(t) ==
    /\ aiPc[t] = "rest"
    /\ LET interaction == aiEvent[t]
           counted == [current_metrics EXCEPT
                          !.active_customers = @ \cup {interaction.customer_id},
                          !.touchpoint_counts =
                              TouchpointCountsAfter(@, interaction.touchpoint)]
           due == TimedeltaSeconds(now - last_update) >= 60
       IN  /\ current_metrics' =
                 IF due THEN WindowMetricsAfter(counted, interactions_buffer, now)
                 ELSE counted
           /\ last_update' = IF due THEN now ELSE last_update
           /\ calcRan' = due
           /\ lastCalc' = IF due THEN now ELSE lastCalc
    /\ aiPc' = [aiPc EXCEPT ![t] = "idle"]
    /\ UNCHANGED <<now, interactions_buffer, enrichment_queue, added, aiEvent,
                   aiRead>>

InitSharedVars ==
    /\ aiPc = [t \in AddThreads |-> "idle"]
    /\ aiEvent = [t \in AddThreads |-> NoInteraction]
    /\ aiRead = [t \in AddThreads |-> 0]

----------------------------------------------------------------------------
(* ExternalAPIManager: get_weather_data, get_stock_market_data,             *)
(* get_news_sentiment and enrich_interaction                                *)
(*                                                                          *)
(* A call is one step of the one thread that uses the manager; the seconds  *)
(* respect_rate_limit sleeps pass inside the step.                          *)

MaxTimeApi == 300        \* horizon of the clock in the lookup specification

ApiSources == {"weather", "stocks", "news"}
Cities     == {"New York", "Chicago"}

\* What requests.get and response.json() gave: a complete answer, an error
\* (connection, timeout, HTTP status), or an answer with parts missing.
LookupOutcomes == {"ok", "error", "incomplete"}

\* The dict _fetch_weather_data builds from a complete answer.
FetchedWeather(city, t) ==
    [temperature |-> 21, humidity |-> 55, weather_condition |-> "Clouds",
     weather_description |-> "few clouds", wind_speed |-> 4,
     pressure |-> 1012, visibility |-> 10, city |-> city, timestamp |-> t]

\* _get_mock_weather_data()
MockWeather(t) ==
    [temperature |-> 18, humidity |-> 60, weather_condition |-> "Clear",
     weather_description |-> "mock data", wind_speed |-> 7,
     pressure |-> 1005, visibility |-> 9, city |-> "Mock City", timestamp |-> t]

\* The dict _fetch_stock_data builds; quote.get(..., 0) fills what is missing.
FetchedStock(symbol, complete, t) ==
    [symbol |-> symbol,
     price |-> IF complete THEN 431 ELSE 0,
     change |-> IF complete THEN 2 ELSE 0,
     change_percent |-> IF complete THEN "0.46" ELSE "0",
     volume |-> IF complete THEN 70000000 ELSE 0,
     market_sentiment |-> IF complete THEN "positive" ELSE "negative",
     timestamp |-> t]

\* _get_mock_stock_data()
MockStock(t) ==
    [symbol |-> "SPY", price |-> 420, change |-> -1, change_percent |-> "-0.24",
     volume |-> 60000000, market_sentiment |-> "negative", timestamp |-> t]

\* The dict _fetch_news_sentiment builds from the articles.
FetchedNews(query, t) ==
    [query |-> query, sentiment_score |-> 1, sentiment_label |-> "positive",
     articles_analyzed |-> 10, timestamp |-> t]

\* _get_mock_news_sentiment()
MockNews(t) ==
    [query |-> "retail shopping", sentiment_score |-> 0,
     sentiment_label |-> "neutral", articles_analyzed |-> 8, timestamp |-> t]

\* except Exception as e: print(...); return the mock data.  Variant that
\* returns an error object.
OnLookupError_errorObject(mock) == [error |-> "lookup failed"]

OnLookupError(mock) == mock

\* _fetch_weather_data, lines 79-104: a missing part of the answer is a
\* KeyError inside the try statement.
FetchWeatherData(city, outcome, t) ==
    IF outcome = "ok" THEN FetchedWeather(city, t)
    ELSE OnLookupError(MockWeather(t))

\* _fetch_stock_data, lines 133-158.
FetchStockData(symbol, outcome, t) ==
    IF outcome = "ok" THEN FetchedStock(symbol, TRUE, t)
    ELSE IF outcome = "incomplete" THEN FetchedStock(symbol, FALSE, t)
    ELSE OnLookupError(MockStock(t))

\* _fetch_news_sentiment, lines 186-234: an article whose description is null
\* is an AttributeError inside the try statement.
FetchNewsSentiment(query, outcome, t) ==
    IF outcome = "ok" THEN FetchedNews(query, t)
    ELSE OnLookupError(MockNews(t))

\* The cache, the rate limiter's record and the clock as a call goes on.
ManagerState == [cache |-> cache, last_api_calls |-> last_api_calls, t |-> now]

\* respect_rate_limit(api_name) by the one calling thread: the state after it.
AfterRateLimit(st, api_name) ==
    LET wait == IF api_name \in DOMAIN st.last_api_calls
                THEN LET time_since_last == st.t - st.last_api_calls[api_name]
                     IN  IF NeedsWait(time_since_last, min_interval(api_name))
                         THEN min_interval(api_name) - time_since_last
                         ELSE 0
                ELSE 0
        t == st.t + wait
    IN  [st EXCEPT
            !.t = t,
            !.last_api_calls =
                [x \in (DOMAIN st.last_api_calls) \cup {api_name} |->
                    IF x = api_name THEN t ELSE st.last_api_calls[x]]]

\* is_cache_valid(cache_key) on the cache c at time t.
CacheValidIn(c, cache_key, t) ==
    IF cache_key \notin DOMAIN c
    THEN FALSE
    ELSE (t - c[cache_key].timestamp) < cache_duration

\* if data: (of a dict).  Variant that lets only the answer of a lookup that
\* succeeded through, not the mock data.
NonEmptyDict_notMock(data) ==
    /\ DOMAIN data # {}
    /\ data \notin {MockWeather(data.timestamp), MockStock(data.timestamp),
                    MockNews(data.timestamp)}

\* if data: (of a dict)
NonEmptyDict(data) == DOMAIN data # {}

\* get_cached_or_fetch(cache_key, fetch_function), where fetch_function calls
\* respect_rate_limit(api_name) and then returns fetched: the data returned
\* and the state after the call.
CachedOrFetched(st, cache_key, api_name, fetched) ==
    IF CacheValidIn(st.cache, cache_key, st.t)
    THEN [data |-> st.cache[cache_key].data, st |-> st, hit |-> TRUE]
    ELSE LET after == AfterRateLimit(st, api_name)
         IN  [data |-> fetched,
              st |-> IF NonEmptyDict(fetched)
                     THEN [after EXCEPT !.cache = CachePut(@, cache_key, fetched, after.t)]
                     ELSE after,
              hit |-> FALSE]

\* get_weather_data(city)
WeatherData(st, city, outcome) ==
    IF ~api_keys["weather"]
    THEN [data |-> MockWeather(st.t), st |-> st, hit |-> FALSE]
    ELSE CachedOrFetched(st, "weather_" \o city, "weather",
                         FetchWeatherData(city, outcome, AfterRateLimit(st, "weather").t))

\* get_stock_market_data(symbol)
StockMarketData(st, symbol, outcome) ==
    IF ~api_keys["stocks"]
    THEN [data |-> MockStock(st.t), st |-> st, hit |-> FALSE]
    ELSE CachedOrFetched(st, "stock_" \o symbol, "stocks",
                         FetchStockData(symbol, outcome, AfterRateLimit(st, "stocks").t))

\* get_news_sentiment(query)
NewsSentiment(st, query, outcome) ==
    IF ~api_keys["news"]
    THEN [data |-> MockNews(st.t), st |-> st, hit |-> FALSE]
    ELSE CachedOrFetched(st, "news_" \o query, "news",
                         FetchNewsSentiment(query, outcome, AfterRateLimit(st, "news").t))

\* get_economic_indicators()
EconomicIndicators(t) ==
    [inflation_rate |-> 3, unemployment_rate |-> 5, consumer_confidence |-> 100,
     gdp_growth |-> 2, interest_rate |-> 4, timestamp |-> t]

\* get_geographic_data(city)
GeographicData(city, t) ==
    [city |-> city,
     population |-> IF city = "New York" THEN 8400000
                    ELSE IF city = "Chicago" THEN 2700000 ELSE 1000000,
     median_income |-> IF city = "New York" THEN 65000
                       ELSE IF city = "Chicago" THEN 58000 ELSE 60000,
     timezone |-> IF city = "Chicago" THEN "CST" ELSE "EST",
     timestamp |-> t]

\* The keys enrich_interaction reads with d[key]; one that is missing is a
\* KeyError that leaves enrich_interaction.
HasKeys(d, keys) == keys \subseteq DOMAIN d

\* What a call on the manager gave; for a lookup, with the cache key it was
\* for ("none" when the credential is missing) and whether the answer came
\* from the cache.
Returned(op, value) ==
    [op |-> op, raised |-> FALSE, value |-> value, key |-> "none", hit |-> FALSE]
RaisedIn(op) ==
    [op |-> op, raised |-> TRUE, value |-> <<>>, key |-> "none", hit |-> FALSE]
ReturnedFor(op, cache_key, r) ==
    [Returned(op, r.data) EXCEPT
        !.key = IF api_keys[op] THEN cache_key ELSE "none",
        !.hit = r.hit]

\* enrich_interaction(interaction): what it returns (or that it raised) and
\* the state after it.
EnrichInteraction(st, interaction, outcomes) ==
    LET customer_city == DictGet(interaction, "city", "New York")
        weather == WeatherData(st, customer_city, outcomes.weather)
        stock   == StockMarketData(weather.st, "SPY", outcomes.stocks)
        news    == NewsSentiment(stock.st, "retail shopping", outcomes.news)
        economic_data == EconomicIndicators(news.st.t)
        geo_data == GeographicData(customer_city, news.st.t)
    IN  IF ~HasKeys(weather.data, {"temperature", "weather_condition", "humidity"})
        THEN [ret |-> RaisedIn("enrich"), st |-> weather.st]
        ELSE IF ~HasKeys(stock.data, {"market_sentiment", "change_percent"})
        THEN [ret |-> RaisedIn("enrich"), st |-> stock.st]
        ELSE IF ~HasKeys(news.data, {"sentiment_label", "sentiment_score"})
        THEN [ret |-> RaisedIn("enrich"), st |-> news.st]
        ELSE [ret |-> Returned("enrich",
                  DictUpdate(interaction,
                      [weather_temperature |-> weather.data.temperature,
                       weather_condition |-> weather.data.weather_condition,
                       weather_humidity |-> weather.data.humidity,
                       market_sentiment |-> stock.data.market_sentiment,
                       market_change_percent |-> stock.data.change_percent,
                       news_sentiment |-> news.data.sentiment_label,
                       news_sentiment_score |-> news.data.sentiment_score,
                       inflation_rate |-> economic_data.inflation_rate,
                       consumer_confidence |-> economic_data.consumer_confidence,
                       city_population |-> geo_data.population,
                       city_median_income |-> geo_data.median_income])),
              st |-> news.st]

\* The manager's state becomes st and the call returns ret.
ApiCallEnds(st, ret) ==
    /\ st.t <= MaxTimeApi
    /\ cache' = st.cache
    /\ last_api_calls' = st.last_api_calls
    /\ now' = st.t
    /\ apiRet' = ret
    /\ UNCHANGED api_keys

GetWeatherData(city, outcome) ==
    LET r == WeatherData(ManagerState, city, outcome)
    IN  ApiCallEnds(r.st, ReturnedFor("weather", "weather_" \o city, r))

GetStockMarketData(outcome) ==
    LET r == StockMarketData(ManagerState, "SPY", outcome)
    IN  ApiCallEnds(r.st, ReturnedFor("stocks", "stock_SPY", r))

GetNewsSentiment(outcome) ==
    LET r == NewsSentiment(ManagerState, "retail shopping", outcome)
    IN  ApiCallEnds(r.st, ReturnedFor("news", "news_retail shopping", r))

CallEnrichInteraction(interaction, outcomes) ==
    LET r == EnrichInteraction(ManagerState, interaction, outcomes)
    IN  ApiCallEnds(r.st, r.ret)

TickApi ==
    /\ Advance(CacheTick, MaxTimeApi)
    /\ UNCHANGED <<cache, last_api_calls, apiVars>>

NoApiCall == Returned("none", <<>>)

InitApiVars ==
    /\ api_keys \in [ApiSources -> BOOLEAN]
    /\ apiRet = NoApiCall

----------------------------------------------------------------------------
(* BigQueryStreaming: the streaming queue and its stream_worker threads     *)
(*                                                                          *)
(* A worker is at "start" (thread started), "get" (inside the collecting    *)
(* loop, about to call streaming_queue.get()), "insert" (about to call      *)
(* insert_rows_json), "sleep" (inside time.sleep) or "done" (loop left).    *)
(* Each action runs the worker up to its next access to the shared queue   *)
(* that another thread can affect.                                          *)

BatchSize       == 2     \* batch_size handed to start_streaming_to_bigquery
IntervalSeconds == 2     \* interval_seconds handed to start_streaming_to_bigquery
MaxSinkWorkers  == 1     \* start_streaming_to_bigquery calls that are explored
MaxSinkEvents   == 3     \* stream_interaction calls that are explored

SinkWorkers  == 1..MaxSinkWorkers
SinkOutcomes == {"ok", "errors", "raised"}   \* of insert_rows_json

\* The queue after insert_rows_json: batch is a local list that is dropped
\* whatever the outcome.  Variant that puts a failed batch back.
QueueAfterInsert_requeue(q, batch, outcome) ==
    IF outcome = "ok" THEN q ELSE q \o batch

QueueAfterInsert(q, batch, outcome) == q

\* Where the worker goes after insert_rows_json: the error list and the
\* exception are only printed.  Variant in which the exception ends the thread.
AfterInsertPc_unhandled(outcome) == IF outcome = "raised" THEN "done" ELSE "sleep"

AfterInsertPc(outcome) == "sleep"

\* time.sleep(interval_seconds).  Variant that does not sleep while a full
\* batch is waiting.
SleepSeconds_sizeTriggered(q) == IF Len(q) >= BatchSize THEN 0 ELSE IntervalSeconds

SleepSeconds(q) == IntervalSeconds

\* Lines 87-94: the test of the collecting loop and what follows it.  Variant
\* whose loop runs batch_size + 1 times.
AfterLoopTest_offByOne(batch, q) ==
    IF Len(batch) < BatchSize + 1 /\ q # <<>> THEN "get"
    ELSE IF batch # <<>> THEN "insert" ELSE "sleep"

AfterLoopTest(batch, q) ==
    IF Len(batch) < BatchSize /\ q # <<>> THEN "get"
    ELSE IF batch # <<>> THEN "insert" ELSE "sleep"

\* Line 89: batch.append(...) puts the event taken from the queue at the end
\* of the batch.  Variant that puts it at the front.
BatchWith_front(batch, x) == <<x>> \o batch

BatchWith(batch, x) == Append(batch, x)

InCycle(w) == swPc[w] \in {"get", "insert", "sleep"}

\* stream_interaction(interaction)
StreamInteraction ==
    /\ nextId <= MaxSinkEvents
    /\ streaming_queue' = Append(streaming_queue, nextId)
    /\ nextId' = nextId + 1
    /\ swDisturbed' = [x \in SinkWorkers |-> InCycle(x)]
    /\ swStartLen' = [x \in SinkWorkers |-> 0]
    /\ UNCHANGED <<is_streaming, swPc, swBatch, swSleep, swElapsed,
                   sinkLog, sinkFailed, sinkEarly>>

\* start_streaming_to_bigquery(batch_size, interval_seconds): sets the flag and
\* starts a new stream_worker thread.
StartStreamingToBigQuery ==
    /\ \E w \in SinkWorkers : swPc[w] = "none"
    /\ LET w == CHOOSE x \in SinkWorkers :
                    /\ swPc[x] = "none"
                    /\ \A y \in SinkWorkers : swPc[y] = "none" => x <= y
       IN  swPc' = [swPc EXCEPT ![w] = "start"]
    /\ is_streaming' = TRUE
    /\ UNCHANGED <<streaming_queue, swBatch, swSleep, swElapsed,
                   swStartLen, swDisturbed, nextId, sinkLog, sinkFailed, sinkEarly>>

\* stop_streaming()
StopStreaming ==
    /\ is_streaming' = FALSE
    /\ UNCHANGED <<streaming_queue, swPc, swBatch, swSleep, swElapsed,
                   swStartLen, swDisturbed, nextId, sinkLog, sinkFailed, sinkEarly>>

\* Line 83: while self.is_streaming, the test that lets the worker into its
\* next cycle.  Variant that goes on whatever the flag says.
LoopGoesOn_always(flag) == TRUE

LoopGoesOn(flag) == flag

\* stream_worker, lines 83-91 (and 94, 107 when nothing is queued): the thread
\* starts, or time.sleep has returned; while self.is_streaming: batch = [],
\* first test of the collecting loop.
SWCheck(w) ==
    /\ \/ swPc[w] = "start"
       \/ swPc[w] = "sleep" /\ swSleep[w] = 0
    /\ IF LoopGoesOn(is_streaming)
       THEN LET pc == AfterLoopTest(<<>>, streaming_queue)
            IN  /\ swPc' = [swPc EXCEPT ![w] = pc]
                /\ swBatch' = [swBatch EXCEPT ![w] = <<>>]
                /\ swStartLen' = [swStartLen EXCEPT ![w] = Len(streaming_queue)]
                /\ swDisturbed' = [swDisturbed EXCEPT ![w] = pc = "sleep"]
                /\ swSleep' = IF pc = "sleep"
                              THEN [swSleep EXCEPT ![w] = SleepSeconds(streaming_queue)]
                              ELSE swSleep
       ELSE /\ swPc' = [swPc EXCEPT ![w] = "done"]
            /\ UNCHANGED <<swBatch, swStartLen, swDisturbed, swSleep>>
    /\ UNCHANGED <<streaming_queue, is_streaming, swElapsed, nextId,
                   sinkLog, sinkFailed, sinkEarly>>

\* stream_worker, lines 87-91: batch.append(self.streaming_queue.get()), and
\* the next test of the collecting loop; get() blocks while the queue is empty.
SWGet(w) ==
    /\ swPc[w] = "get"
    /\ streaming_queue # <<>>
    /\ LET batch == BatchWith(swBatch[w], Head(streaming_queue))
       IN  /\ swBatch' = [swBatch EXCEPT ![w] = batch]
           /\ swPc' = [swPc EXCEPT ![w] = AfterLoopTest(batch, Tail(streaming_queue))]
    /\ streaming_queue' = Tail(streaming_queue)
    /\ swDisturbed' = [x \in SinkWorkers |->
                         IF x = w THEN swDisturbed[x]
                         ELSE (swDisturbed[x] \/ InCycle(x))]
    /\ swStartLen' = [x \in SinkWorkers |-> IF x = w THEN swStartLen[x] ELSE 0]
    /\ UNCHANGED <<is_streaming, swSleep, swElapsed, nextId,
                   sinkLog, sinkFailed, sinkEarly>>

\* stream_worker, lines 94-107: insert_rows_json(batch) returns no errors,
\* returns errors or raises; then time.sleep(interval_seconds) begins.
SWInsert(w, outcome) ==
    /\ swPc[w] = "insert"
    /\ sinkLog' = Append(sinkLog, [batch |-> swBatch[w], ok |-> outcome = "ok"])
    /\ sinkEarly' = (sinkEarly \/ (swElapsed[w] # NoTime
                                      /\ swElapsed[w] < IntervalSeconds))
    /\ sinkFailed' = (sinkFailed \/ outcome # "ok")
    /\ streaming_queue' = QueueAfterInsert(streaming_queue, swBatch[w], outcome)
    /\ swElapsed' = [swElapsed EXCEPT ![w] = 0]
    /\ swPc' = [swPc EXCEPT ![w] = AfterInsertPc(outcome)]
    /\ swSleep' = [swSleep EXCEPT ![w] = SleepSeconds(streaming_queue)]
    /\ UNCHANGED <<is_streaming, swBatch, swStartLen, swDisturbed, nextId>>

\* One second passes.
TickSink ==
    /\ \E w \in SinkWorkers :
          \/ swPc[w] = "sleep" /\ swSleep[w] > 0
          \/ swElapsed[w] # NoTime /\ swElapsed[w] < IntervalSeconds
    /\ swSleep' = [w \in SinkWorkers |->
                     IF swPc[w] = "sleep" /\ swSleep[w] > 0
                     THEN swSleep[w] - 1 ELSE swSleep[w]]
    /\ swElapsed' = [w \in SinkWorkers |->
                     IF swElapsed[w] # NoTime /\ swElapsed[w] < IntervalSeconds
                     THEN swElapsed[w] + 1 ELSE swElapsed[w]]
    /\ UNCHANGED <<streaming_queue, is_streaming, swPc, swBatch,
                   swStartLen, swDisturbed, nextId, sinkLog, sinkFailed, sinkEarly>>

SWStep(w) ==
    \/ SWCheck(w)
    \/ SWGet(w)
    \/ \E outcome \in SinkOutcomes : SWInsert(w, outcome)

InitSinkVars ==
    /\ streaming_queue = <<>>
    /\ is_streaming = FALSE
    /\ swPc = [w \in SinkWorkers |-> "none"]
    /\ swBatch = [w \in SinkWorkers |-> <<>>]
    /\ swSleep = [w \in SinkWorkers |-> 0]
    /\ swElapsed = [w \in SinkWorkers |-> NoTime]
    /\ swStartLen = [w \in SinkWorkers |-> 0]
    /\ swDisturbed = [w \in SinkWorkers |-> FALSE]
    /\ nextId = 1
    /\ sinkLog = <<>>
    /\ sinkFailed = FALSE
    /\ sinkEarly = FALSE

----------------------------------------------------------------------------
(* RealTimeCustomerSimulator: start/stop and the generate_interactions      *)
(* threads, and the dashboard's process_enhanced_interactions that drains   *)
(* interaction_queue into the processor                                     *)
(*                                                                          *)
(* A producer thread is at "none" (not started), "test" (about to test      *)
(* while self.is_running: just started, or inside time.sleep), "put" (the   *)
(* test passed, about to generate and put an event) or "done" (loop left).  *)

MaxProducers == 2        \* start_streaming calls that are explored
MaxSimEvents == 2        \* events the producer threads generate that are explored

Producers == 1..MaxProducers

\* count handed to get_recent_interactions: 50 by the dashboard, small by a
\* caller that polls.
TakeCounts == {1, 50}

\* generate_real_time_interaction(): the fields the pipeline reads, and the
\* position of the event in the order of generation as its interaction_id.
SimEvent(id, kind) ==
    [interaction_id |-> id,
     customer_id |-> kind.customer_id,
     touchpoint |-> kind.touchpoint,
     revenue |-> kind.revenue,
     session_duration_minutes |-> kind.session_duration_minutes]

\* The producer threads that are inside their loop.
ActiveProducers == { p \in Producers : pgPc[p] \in {"test", "put"} }

\* start_streaming(): sets the flag and starts a new generate_interactions
\* thread.
StartStreaming ==
    /\ \E p \in Producers : pgPc[p] = "none"
    /\ LET p == CHOOSE x \in Producers :
                    /\ pgPc[x] = "none"
                    /\ \A y \in Producers : pgPc[y] = "none" => x <= y
       IN  pgPc' = [pgPc EXCEPT ![p] = "test"]
    /\ is_running' = TRUE
    /\ pgAfterStop' = [p \in Producers |-> 0]
    /\ UNCHANGED <<interaction_queue, nextSimId, pending>>

\* What stop_streaming leaves of the queue.  Variant that empties it.
QueueAfterStop_discard(q) == <<>>

\* stop_streaming, lines 82-85: the queue is not touched.
QueueAfterStop(q) == q

\* RealTimeCustomerSimulator.stop_streaming()
StopSimulator ==
    /\ is_running' = FALSE
    /\ interaction_queue' = QueueAfterStop(interaction_queue)
    /\ UNCHANGED <<pgPc, pgAfterStop, nextSimId, pending>>

\* Where the loop goes after its test.  Variant that tests the flag once, when
\* the thread starts, and never again.
AfterRunningTest_once(running) == "put"

AfterRunningTest(running) == IF running THEN "put" ELSE "done"

\* generate_interactions, line 70: while self.is_running (the thread has just
\* started, or time.sleep has returned).
PGTest(p) ==
    /\ pgPc[p] = "test"
    /\ pgPc' = [pgPc EXCEPT ![p] = AfterRunningTest(is_running)]
    /\ UNCHANGED <<is_running, interaction_queue, pgAfterStop, nextSimId, pending>>

\* generate_interactions, lines 71-76: generate an event, put it, sleep.
PGPut(p, kind) ==
    /\ pgPc[p] = "put"
    /\ nextSimId <= MaxSimEvents
    /\ interaction_queue' = Append(interaction_queue, SimEvent(nextSimId, kind))
    /\ nextSimId' = nextSimId + 1
    /\ pgAfterStop' = [pgAfterStop EXCEPT ![p] = IF is_running THEN @ ELSE @ + 1]
    /\ pgPc' = [pgPc EXCEPT ![p] = "test"]
    /\ UNCHANGED <<is_running, pending>>

\* How many events get_recent_interactions(count) takes: the loop runs
\* min(count, qsize()) times.
TakeCount(count, q) == IF count < Len(q) THEN count ELSE Len(q)

\* process_enhanced_interactions, line 48: get_recent_interactions(count).
\* Only this thread takes from the queue, so the loop gets the events that
\* were at its head when it began.
GetRecentInteractions(count) ==
    /\ pending = <<>>
    /\ interaction_queue # <<>>
    /\ LET n == TakeCount(count, interaction_queue)
       IN  /\ pending' = SubSeq(interaction_queue, 1, n)
           /\ interaction_queue' = SubSeq(interaction_queue, n + 1, Len(interaction_queue))
    /\ UNCHANGED <<is_running, pgPc, pgAfterStop, nextSimId>>

\* add_interactions_batch, lines 240-241: add_interaction for the next event.
AddNextOfBatch ==
    /\ pending # <<>>
    /\ AddInteraction(Head(pending))
    /\ pending' = Tail(pending)
    /\ UNCHANGED <<is_running, interaction_queue, pgPc, pgAfterStop, nextSimId>>

InitSimVars ==
    /\ is_running = FALSE
    /\ interaction_queue = <<>>
    /\ pgPc = [p \in Producers |-> "none"]
    /\ pgAfterStop = [p \in Producers |-> 0]
    /\ nextSimId = 1
    /\ pending = <<>>

----------------------------------------------------------------------------
(* Specifications *)

\* The credentials are not set (os.getenv returns None).
NoApiKeys == api_keys = [x \in ApiSources |-> FALSE]

InitAll ==
    /\ now = 0
    /\ InitCacheVars
    /\ InitProcVars
    /\ InitEnrichVars
    /\ InitDashVars
    /\ InitSharedVars
    /\ InitSinkVars
    /\ apiRet = NoApiCall
    /\ InitSimVars

otherThanCache == <<rateVars, procVars, enrichVars, dashVars, sharedVars,
                    sinkVars, apiVars, simVars>>
otherThanRate == <<cacheVars, procVars, enrichVars, dashVars, sharedVars,
                   sinkVars, apiVars, simVars>>
otherThanMetrics == <<cacheVars, rateVars, enrichVars, dashVars, sharedVars,
                      sinkVars, apiVars, simVars>>

\* get_cached_or_fetch called by one thread.
SpecCacheInit == InitAll /\ NoApiKeys /\ InitRateVars({1})

SpecCacheNext ==
    \/ \E k \in CacheKeys : GetCachedHit(k) /\ UNCHANGED otherThanCache
    \/ \E k \in CacheKeys : GetCachedMiss(k) /\ UNCHANGED otherThanCache
    \/ \E d \in FetchValues \cup {Empty} :
          FetchReturns(d) /\ UNCHANGED otherThanCache
    \/ FetchRaises /\ UNCHANGED otherThanCache
    \/ TickCache /\ UNCHANGED otherThanCache

SpecCache == SpecCacheInit /\ [][SpecCacheNext]_vars

RateNext ==
    \/ \E t \in rlThreads, s \in RateSources :
          RLCall(t, s) /\ UNCHANGED otherThanRate
    \/ \E t \in rlThreads : RLWake(t) /\ UNCHANGED otherThanRate
    \/ \E t \in rlThreads : RLRecord(t) /\ UNCHANGED otherThanRate
    \/ TickRate /\ UNCHANGED otherThanRate

\* respect_rate_limit called by one thread.
SpecRateInit == InitAll /\ NoApiKeys /\ InitRateVars({1})
SpecRate == SpecRateInit /\ [][RateNext]_vars

\* respect_rate_limit called by two threads that share one manager.
SpecRateSharedInit == InitAll /\ NoApiKeys /\ InitRateVars({1, 2})
SpecRateShared == SpecRateSharedInit /\ [][RateNext]_vars

MetricsNext ==
    \/ \E e \in EventKinds : AddInteraction(e) /\ UNCHANGED otherThanMetrics
    \/ CalculateWindowMetrics /\ UNCHANGED otherThanMetrics
    \/ TickMetrics /\ UNCHANGED otherThanMetrics

\* add_interaction and calculate_window_metrics called by one thread.
SpecMetricsInit == InitAll /\ NoApiKeys /\ InitRateVars({1})
SpecMetrics == SpecMetricsInit /\ [][MetricsNext]_vars
otherThanSink == <<now, cacheVars, rateVars, procVars, enrichVars, dashVars,
                   sharedVars, apiVars, simVars>>

SinkWorkerStep(w) == SWStep(w) /\ UNCHANGED otherThanSink
SinkSecond == TickSink /\ UNCHANGED otherThanSink

SinkNext ==
    \/ StreamInteraction /\ UNCHANGED otherThanSink
    \/ StartStreamingToBigQuery /\ UNCHANGED otherThanSink
    \/ StopStreaming /\ UNCHANGED otherThanSink
    \/ \E w \in SinkWorkers : SinkWorkerStep(w)
    \/ SinkSecond

\* The batch sink with its producers, its workers and start/stop.
SpecSinkInit == InitAll /\ NoApiKeys /\ InitRateVars({1})
SpecSink == SpecSinkInit /\ [][SinkNext]_vars

\* The same, with every started worker thread scheduled again and again and
\* time going on.
SpecSinkFair ==
    /\ SpecSinkInit
    /\ [][SinkNext]_vars
    /\ \A w \in SinkWorkers : WF_vars(SinkWorkerStep(w))
    /\ WF_vars(SinkSecond)


otherThanPipeline == <<cacheVars, rateVars, sinkVars, apiVars, dashVars,
                       sharedVars>>

ProducerStep(p) ==
    /\ \/ PGTest(p)
       \/ \E kind \in EventKinds : PGPut(p, kind)
    /\ UNCHANGED <<now, procVars, enrichVars, otherThanPipeline>>

SimNext ==
    \/ StartStreaming /\ UNCHANGED <<now, procVars, enrichVars, otherThanPipeline>>
    \/ StopSimulator /\ UNCHANGED <<now, procVars, enrichVars, otherThanPipeline>>
    \/ \E p \in Producers : ProducerStep(p)

\* The simulator with its start_streaming and stop_streaming calls and its
\* producer threads.
SpecSimInit == InitAll /\ NoApiKeys /\ InitRateVars({1})
SpecSim == SpecSimInit /\ [][SimNext]_vars

\* The same, with every started producer thread scheduled again and again.
SpecSimFair ==
    /\ SpecSimInit
    /\ [][SimNext]_vars
    /\ \A p \in Producers : WF_vars(ProducerStep(p))

EnrichmentStep ==
    /\ \/ EWPop
       \/ \E reading \in ExternalReadings : EWEnriched(reading)
       \/ EWRaised
    /\ UNCHANGED <<now, simVars, otherThanPipeline>>

EnrichNext ==
    \/ /\ \E e \in EventKinds : AddInteraction(e)
       /\ UNCHANGED <<enrichVars, simVars, otherThanPipeline>>
    \/ EnrichmentStep

\* add_interaction called by one thread, and the enrichment worker.
SpecEnrichInit == InitAll /\ NoApiKeys /\ InitRateVars({1})
SpecEnrich == SpecEnrichInit /\ [][EnrichNext]_vars

\* The same, with the worker thread scheduled again and again.
SpecEnrichFair ==
    /\ SpecEnrichInit
    /\ [][EnrichNext]_vars
    /\ WF_vars(EnrichmentStep)

DashboardStep ==
    \/ /\ \E count \in TakeCounts : GetRecentInteractions(count)
       /\ UNCHANGED <<now, procVars, enrichVars, otherThanPipeline>>
    \/ AddNextOfBatch /\ UNCHANGED <<enrichVars, otherThanPipeline>>

PipelineNext ==
    \/ SimNext
    \/ DashboardStep
    \/ EnrichmentStep

\* The simulator, the dashboard thread that feeds the processor from it, and
\* the enrichment worker.
SpecPipelineInit == InitAll /\ NoApiKeys /\ InitRateVars({1})
SpecPipeline == SpecPipelineInit /\ [][PipelineNext]_vars

\* The pipeline with events of one kind and one reading of the external
\* sources: neither the simulator's start and stop, nor the queues, nor the
\* worker's loop look at what an event holds.
DrainKinds == { e \in EventKinds : e.revenue = 150 }
DrainReadings == { r \in ExternalReadings : r.weather_condition = "Rain" }

DrainProducerStep(p) ==
    /\ \/ PGTest(p)
       \/ \E kind \in DrainKinds : PGPut(p, kind)
    /\ UNCHANGED <<now, procVars, enrichVars, otherThanPipeline>>

DrainWorkerStep ==
    /\ \/ EWPop
       \/ \E reading \in DrainReadings : EWEnriched(reading)
       \/ EWRaised
    /\ UNCHANGED <<now, simVars, otherThanPipeline>>

DrainBatchStep == AddNextOfBatch /\ UNCHANGED <<enrichVars, otherThanPipeline>>

DrainNext ==
    \/ StartStreaming /\ UNCHANGED <<now, procVars, enrichVars, otherThanPipeline>>
    \/ StopSimulator /\ UNCHANGED <<now, procVars, enrichVars, otherThanPipeline>>
    \/ \E p \in Producers : DrainProducerStep(p)
    \/ /\ \E count \in TakeCounts : GetRecentInteractions(count)
       /\ UNCHANGED <<now, procVars, enrichVars, otherThanPipeline>>
    \/ DrainBatchStep
    \/ DrainWorkerStep

\* The enrichment worker thread is scheduled again and again and
\* add_interactions_batch goes through its list.
SpecDrainInit == InitAll /\ NoApiKeys /\ InitRateVars({1})
SpecDrainFair ==
    /\ SpecDrainInit
    /\ [][DrainNext]_vars
    /\ WF_vars(DrainWorkerStep)
    /\ WF_vars(DrainBatchStep)

\* add_interaction, the enrichment worker, and the dashboard that asks for
\* its data.
DashboardDataNext ==
    \/ EnrichNext
    \/ /\ GetRealTimeDashboardData
       /\ UNCHANGED <<sharedVars, simVars, cacheVars, rateVars, sinkVars, apiVars>>

SpecDashboardDataInit == InitAll /\ NoApiKeys /\ InitRateVars({1})
SpecDashboardData == SpecDashboardDataInit /\ [][DashboardDataNext]_vars

\* add_interaction called by one thread, the enrichment worker statement by
\* statement, and the dashboard that asks for its data.
WorkerStatement ==
    /\ \/ EWPop
       \/ \E reading \in ExternalReadings : EWAppendEnriched(reading)
       \/ EWRaised
       \/ UEMNewCondition
       \/ UEMAddRevenue
       \/ UEMAddCount
       \/ UEMAverage
       \/ UEMSentiment
    /\ UNCHANGED <<now, dashVars, sharedVars, simVars, cacheVars, rateVars,
                   sinkVars, apiVars>>

WorkerStatementsNext ==
    \/ /\ Len(added) < MaxStatementEvents
       /\ \E e \in EventKinds : AddInteraction(e)
       /\ UNCHANGED <<enrichVars, dashVars, sharedVars, simVars, cacheVars,
                      rateVars, sinkVars, apiVars>>
    \/ /\ Len(added) < MaxStatementEvents
       /\ \E e \in TextRevenueKinds : AddInteractionRaises(e)
       /\ UNCHANGED <<enrichVars, dashVars, sharedVars, simVars, cacheVars,
                      rateVars, sinkVars, apiVars>>
    \/ WorkerStatement
    \/ /\ GetRealTimeDashboardData
       /\ UNCHANGED <<sharedVars, simVars, cacheVars, rateVars, sinkVars, apiVars>>

SpecWorkerStatementsInit == InitAll /\ NoApiKeys /\ InitRateVars({1})
SpecWorkerStatements == SpecWorkerStatementsInit /\ [][WorkerStatementsNext]_vars

otherThanShared == <<enrichVars, dashVars, simVars, cacheVars, rateVars,
                     sinkVars, apiVars>>

MetricsSharedNext ==
    \/ \E t \in AddThreads, e \in EventKinds :
          AIBegin(t, e) /\ UNCHANGED otherThanShared
    \/ \E t \in AddThreads : AIReadCount(t) /\ UNCHANGED otherThanShared
    \/ \E t \in AddThreads : AIWriteCount(t) /\ UNCHANGED otherThanShared
    \/ \E t \in AddThreads : AIReadRevenue(t) /\ UNCHANGED otherThanShared
    \/ \E t \in AddThreads : AIWriteRevenue(t) /\ UNCHANGED otherThanShared
    \/ \E t \in AddThreads : AIRest(t) /\ UNCHANGED otherThanShared

\* add_interaction called by two threads on one processor.
SpecMetricsSharedInit == InitAll /\ NoApiKeys /\ InitRateVars({1})
SpecMetricsShared == SpecMetricsSharedInit /\ [][MetricsSharedNext]_vars

\* add_interaction statement by statement on the calling threads, and the
\* enrichment worker.
AddAndWorkerNext ==
    \/ /\ Len(added) < MaxStatementEvents
       /\ \E t \in AddThreads, e \in EventKinds : AIBegin(t, e)
       /\ UNCHANGED otherThanShared
    \/ \E t \in AddThreads : AIReadCount(t) /\ UNCHANGED otherThanShared
    \/ \E t \in AddThreads : AIWriteCount(t) /\ UNCHANGED otherThanShared
    \/ \E t \in AddThreads : AIReadRevenue(t) /\ UNCHANGED otherThanShared
    \/ \E t \in AddThreads : AIWriteRevenue(t) /\ UNCHANGED otherThanShared
    \/ \E t \in AddThreads : AIRest(t) /\ UNCHANGED otherThanShared
    \/ EnrichmentStep

SpecAddAndWorkerInit == InitAll /\ NoApiKeys /\ InitRateVars({1})
SpecAddAndWorker == SpecAddAndWorkerInit /\ [][AddAndWorkerNext]_vars

\* What the calls leave alone: the bookkeeping of the other specifications.
otherThanApi == <<gcPc, gcKey, gcCallTime, gcPrior, fetchCount, stored, lastCall,
                  rlThreads, rlPc, rlSrc, rlWake, rlSlept, rlFirst, rlReturns,
                  rlFirstWaited, procVars, enrichVars, dashVars, sharedVars,
                  sinkVars, simVars>>

\* The lookup outcomes of one enrich_interaction call: the three sources
\* answer alike (they differ through what is cached).
EnrichOutcomes == { [weather |-> o, stocks |-> o, news |-> o] :
                      o \in LookupOutcomes }

\* The interactions handed to enrich_interaction: without and with a city.
ApiInteractions ==
    LET interaction ==
            Stamp(SimEvent(1, CHOOSE e \in EventKinds : e.revenue = 150), 0)
    IN  { interaction, DictUpdate(interaction, [city |-> "Chicago"]) }

ApiNext ==
    \/ \E city \in Cities, outcome \in LookupOutcomes :
          GetWeatherData(city, outcome) /\ UNCHANGED otherThanApi
    \/ \E outcome \in LookupOutcomes :
          GetStockMarketData(outcome) /\ UNCHANGED otherThanApi
    \/ \E outcome \in LookupOutcomes :
          GetNewsSentiment(outcome) /\ UNCHANGED otherThanApi
    \/ \E interaction \in ApiInteractions, outcomes \in EnrichOutcomes :
          CallEnrichInteraction(interaction, outcomes) /\ UNCHANGED otherThanApi
    \/ TickApi /\ UNCHANGED otherThanApi

\* The lookups and enrich_interaction called by one thread, with any of the
\* three credentials set or missing.
SpecApiInit == InitAll /\ InitApiVars /\ InitRateVars({1})
SpecApi == SpecApiInit /\ [][ApiNext]_vars

----------------------------------------------------------------------------
(* Properties of the response cache (SpecCache) *)

\* The last completed call found an entry stored by an earlier call.
CallAfterStore == lastCall.key # "none" /\ lastCall.prior # NoEntry

\* Age, at the time of the last completed call, of the entry it found.
AgeAtCall == lastCall.time - lastCall.prior.timestamp

\* C1: once a non-empty value was fetched and stored for a key, a later
\* get_cached_or_fetch call for that key made less than cache_duration after
\* the store returns that same value and does not invoke fetch_function.
C1_LiveEntryServedWithoutFetch ==
    (CallAfterStore /\ AgeAtCall < cache_duration)
        => (lastCall.ret = lastCall.prior.data /\ ~lastCall.fetched)

\* C1 witness: a call made strictly later than the store, within the TTL.
C1_Witness ==
    /\ CallAfterStore
    /\ AgeAtCall > 0
    /\ AgeAtCall < cache_duration
    /\ lastCall.ret = lastCall.prior.data

\* C2 (as stated): an entry of age >= cache_duration is never returned; the
\* call invokes fetch_function again and overwrites the entry with the newly
\* fetched value and the current timestamp.
C2_ExpiredEntryAlwaysOverwritten ==
    (CallAfterStore /\ AgeAtCall >= cache_duration)
        => /\ lastCall.fetched
           /\ lastCall.key \in DOMAIN cache
           /\ cache[lastCall.key] =
                  [data |-> lastCall.ret, timestamp |-> lastCall.done]

\* C2 (amended): an entry of age >= cache_duration is never returned; the call
\* invokes fetch_function again, and overwrites the entry with the fetched
\* value and the current timestamp when that value is non-empty; when the
\* fetch returns an empty value or raises, the expired entry stays as it was.
C2_ExpiredEntryRefetched ==
    (CallAfterStore /\ AgeAtCall >= cache_duration)
        => /\ lastCall.fetched
           /\ lastCall.key \in DOMAIN cache
           /\ cache[lastCall.key] =
                  IF lastCall.ret \in FetchValues
                  THEN [data |-> lastCall.ret, timestamp |-> lastCall.done]
                  ELSE lastCall.prior

\* C2 witness: an expired entry was refetched and overwritten.
C2_Witness ==
    /\ CallAfterStore
    /\ AgeAtCall >= cache_duration
    /\ lastCall.ret \in FetchValues
    /\ lastCall.ret # lastCall.prior.data
    /\ cache[lastCall.key].timestamp = lastCall.done

----------------------------------------------------------------------------
(* Properties of the rate limiter (SpecRate, SpecRateShared) *)

\* Every two consecutive returns for a source are min_interval apart.
ReturnsSpaced ==
    \A s \in RateSources :
        rlReturns[s].prev # NoTime
            => rlReturns[s].last - rlReturns[s].prev >= min_interval(s)

\* C3: with one calling thread, two consecutive respect_rate_limit(source)
\* calls never return less than rate_limits[source] apart (1 s for a source
\* without a configured limit), and the first call for a source does not wait.
C3_SingleThreadSpacing == ReturnsSpaced /\ ~rlFirstWaited

\* C3 witness: a second call for "news" slept and returned exactly 2 s after
\* the first one.
C3_Witness ==
    /\ rlReturns["news"].prev # NoTime
    /\ rlReturns["news"].last - rlReturns["news"].prev = 2
    /\ rlPc[1] = "idle" /\ rlSrc[1] = "news" /\ rlSlept[1]

\* C4: with two threads sharing the manager, the returns of any two
\* respect_rate_limit calls for one source are still rate_limits[source] apart.
C4_SharedSpacing ==
    \A s \in RateSources :
        (rlReturns[s].prev # NoTime /\ Cardinality(rlThreads) > 1)
            => rlReturns[s].last - rlReturns[s].prev >= min_interval(s)

----------------------------------------------------------------------------
(* Properties of the running and window metrics (SpecMetrics) *)

\* Positions in the buffer of the interactions processed within the last
\* window_size minutes.
InWindowIdx ==
    { i \in 1..Len(interactions_buffer) :
        now - interactions_buffer[i].processed_timestamp < 60 * window_size }

\* Those of them that brought revenue.
ConvertedIdx == { i \in InWindowIdx : interactions_buffer[i].revenue > 0 }

\* C5: after calculate_window_metrics ran with N >= 1 buffered interactions in
\* the window, K of them with revenue > 0, conversion_rate_window is 100*K/N:
\* it counts the in-window interactions only, whatever their order.
C5_WindowConversionRate ==
    (calcRan /\ InWindowIdx # {})
        => RatioEq(current_metrics.conversion_rate_window,
                   Ratio(100 * Cardinality(ConvertedIdx), Cardinality(InWindowIdx)))

\* C5 witness: a recompute with an interaction outside the window and, inside
\* it, one with revenue after one without.
C5_Witness ==
    /\ calcRan
    /\ Cardinality(InWindowIdx) = 2
    /\ Cardinality(ConvertedIdx) = 1
    /\ Len(interactions_buffer) = 3
    /\ interactions_buffer[1].revenue > 0
    /\ interactions_buffer[3].revenue > 0
    /\ current_metrics.conversion_rate_window = Ratio(100, 2)

AddedIdx == 1..Len(added)

\* C6: after any sequence of add_interaction calls from one thread the totals
\* are those of the calls: their number, the sum of their revenue, per
\* touchpoint the number of calls with it, and the set of their customers.
C6_RunningTotals ==
    /\ current_metrics.total_interactions_today = Len(added)
    /\ current_metrics.total_revenue_today = SumRevenue(added)
    /\ DOMAIN current_metrics.touchpoint_counts =
          { added[i].touchpoint : i \in AddedIdx }
    /\ \A t \in DOMAIN current_metrics.touchpoint_counts :
          current_metrics.touchpoint_counts[t] =
              Cardinality({ i \in AddedIdx : added[i].touchpoint = t })
    /\ current_metrics.active_customers =
          { added[i].customer_id : i \in AddedIdx }

\* C6 witness: revenues 0, 150, 0 on website, email, website.
C6_Witness ==
    /\ Len(added) = 3
    /\ added[1].touchpoint = "website" /\ added[1].revenue = 0
    /\ added[2].touchpoint = "email" /\ added[2].revenue = 150
    /\ added[3].touchpoint = "website" /\ added[3].revenue = 0
    /\ current_metrics.total_interactions_today = 3
    /\ current_metrics.total_revenue_today = 150
    /\ current_metrics.touchpoint_counts["website"] = 2
    /\ current_metrics.touchpoint_counts["email"] = 1

----------------------------------------------------------------------------
(* Properties of the batch sink (SpecSink, SpecSinkFair) *)

Min(a, b) == IF a < b THEN a ELSE b

\* The workers whose thread has been started.
StartedWorkers == { w \in SinkWorkers : swPc[w] # "none" }

\* Every started worker that has not left its loop is inside time.sleep with
\* time left, and there is one.
AllAsleep ==
    /\ \E w \in SinkWorkers : swPc[w] = "sleep"
    /\ \A w \in StartedWorkers :
          swPc[w] = "done" \/ (swPc[w] = "sleep" /\ swSleep[w] > 0)

\* C7 (as stated): the sink flushes as soon as batch_size events are
\* buffered, without waiting for the flush interval: no second goes by with
\* batch_size events buffered while the workers sit in their sleep.
C7_FlushAsSoonAsFull ==
    [][(is_streaming /\ AllAsleep /\ Len(streaming_queue) >= BatchSize)
          => swSleep' = swSleep]_vars

\* C7 (amended): the worker polls; every write carries at most batch_size
\* events and comes at least interval_seconds after the previous write of the
\* same worker, however many events are buffered.
C7_FlushOncePerInterval ==
    \A i \in DOMAIN sinkLog :
        /\ Len(sinkLog[i].batch) >= 1
        /\ Len(sinkLog[i].batch) <= BatchSize
        /\ ~sinkEarly

\* C7 witness: a write that followed an earlier write of the same worker while
\* more events were still buffered.
C7_Witness ==
    /\ Cardinality(StartedWorkers) = 1
    /\ Len(sinkLog) >= 2
    /\ \E w \in SinkWorkers : swPc[w] = "sleep" /\ swElapsed[w] = 0
    /\ streaming_queue # <<>>

\* Worker w has just written its batch (no second has passed since) and since
\* its cycle began no event was added and no other worker took one.
JustFlushedUndisturbed(w) ==
    /\ swPc[w] = "sleep"
    /\ swBatch[w] # <<>>
    /\ swElapsed[w] = 0
    /\ ~swDisturbed[w]

\* C8 (as stated): immediately after every flush streaming_queue holds 0
\* events, provided no event is added during the flush.
C8_QueueEmptyAfterFlush ==
    \A w \in SinkWorkers : JustFlushedUndisturbed(w) => streaming_queue = <<>>

\* C8 (amended): immediately after a flush streaming_queue holds the events
\* that were buffered beyond the first batch_size when the cycle began: none
\* when at most batch_size were buffered, n - batch_size when n were.
C8_QueueHoldsRestAfterFlush ==
    \A w \in SinkWorkers :
        JustFlushedUndisturbed(w)
            => /\ Len(swBatch[w]) = Min(BatchSize, swStartLen[w])
               /\ Len(streaming_queue) = swStartLen[w] - Len(swBatch[w])

\* C8 witness: a flush that left an event in the queue.
C8_Witness ==
    \E w \in SinkWorkers :
        /\ JustFlushedUndisturbed(w)
        /\ Len(swBatch[w]) = BatchSize
        /\ Len(streaming_queue) = 1

\* Event e has been passed to the Sink.
WasHanded(e) ==
    \E i \in DOMAIN sinkLog : \E k \in DOMAIN sinkLog[i].batch :
        sinkLog[i].batch[k] = e

InSeq(e, q) == \E k \in DOMAIN q : q[k] = e

\* C9: the events of a failed write are discarded: they are not put back
\* into streaming_queue, no worker holds them for another write, and no event
\* is passed to the Sink twice.
C9_FailedBatchDiscarded ==
    /\ \A i, j \in DOMAIN sinkLog :
          \A a \in DOMAIN sinkLog[i].batch, b \in DOMAIN sinkLog[j].batch :
              sinkLog[i].batch[a] = sinkLog[j].batch[b] => (i = j /\ a = b)
    /\ \A e \in 1..MaxSinkEvents :
          WasHanded(e)
              => /\ ~InSeq(e, streaming_queue)
                 /\ \A w \in SinkWorkers :
                       swPc[w] \in {"get", "insert"} => ~InSeq(e, swBatch[w])

\* C9 witness: a write failed and a later write succeeded.
C9_Witness ==
    \E i, j \in DOMAIN sinkLog : i < j /\ ~sinkLog[i].ok /\ sinkLog[j].ok

\* C10: a failed write does not stop the worker: with one worker started, an
\* event that is queued after a write has failed is passed to the Sink, unless
\* is_streaming is cleared (or a further worker is started) first.
C10_WorkerSurvivesFailure ==
    \A e \in 1..MaxSinkEvents :
        [](( sinkFailed /\ InSeq(e, streaming_queue) )
              => <>( \/ WasHanded(e)
                     \/ ~is_streaming
                     \/ Cardinality(StartedWorkers) # 1 ))

\* C10 witness: the only worker wrote a batch after its first write failed,
\* and is_streaming is still set.
C10_Witness ==
    /\ Cardinality(StartedWorkers) = 1
    /\ is_streaming
    /\ Len(sinkLog) >= 2
    /\ ~sinkLog[1].ok
    /\ WasHanded(MaxSinkEvents)

----------------------------------------------------------------------------
(* Properties of the simulator (SpecSim, SpecSimFair) *)

\* C11: start_streaming() on a simulator that is already running is a no-op:
\* no step taken while is_running is set adds a producer loop to the active
\* ones, so one loop remains.
C11_StartWhileRunningIsNoOp ==
    [][is_running => (ActiveProducers' \subseteq ActiveProducers)]_vars

\* C12: after stop_streaming(), with start_streaming() not called again, a
\* producer loop puts at most one further event (the one in progress), and it
\* then leaves its loop.
C12_StopHaltsAfterCurrentEvent ==
    /\ [](\A p \in Producers : pgAfterStop[p] <= 1)
    /\ [](~is_running => <>( \/ is_running
                             \/ ActiveProducers = {}
                             \/ nextSimId > MaxSimEvents ))

\* C12 witness: a producer put the event in progress after stop_streaming()
\* and has left its loop.
C12_Witness ==
    /\ ~is_running
    /\ \E p \in Producers : pgPc[p] = "done" /\ pgAfterStop[p] = 1
    /\ ActiveProducers = {}
    /\ nextSimId <= MaxSimEvents

\* C13: when stop_streaming() has returned the producer threads started
\* earlier are gone, so a start_streaming() call on the stopped simulator
\* leaves one producer loop, also right after the stop.
C13_RestartLeavesOneProducer ==
    [][(~is_running /\ is_running') => Cardinality(ActiveProducers') <= 1]_vars

----------------------------------------------------------------------------
(* Properties of the enrichment worker (SpecEnrich, SpecEnrichFair,         *)
(* SpecPipeline)                                                            *)

\* The interaction carries the fields enrich_interaction adds.
IsEnriched(interaction) == "weather_condition" \in DOMAIN interaction

\* C14: when enrich_interaction raises the worker stays in its loop: it
\* appends the interaction as it came to enriched_interactions, every
\* interaction it took is appended (enriched or raw), and the interactions
\* queued after the failure are processed too.
C14_WorkerSurvivesEnrichFailure ==
    /\ [](ewPc # "done")
    /\ [](\A k \in DOMAIN ewRaisedFor :
             /\ ~IsEnriched(ewRaisedFor[k])
             /\ InSeq(ewRaisedFor[k], enriched_interactions))
    /\ [](ewPc = "loop" =>
             Len(enriched_interactions) + Len(enrichment_queue) = Len(added))
    /\ \A n \in 1..MaxEvents :
          []((ewRaisedFor # <<>> /\ Len(added) >= n)
                => <>(Len(enriched_interactions) >= n))

\* C14 witness: enrich_interaction raised for the first interaction and the
\* second one was enriched after it.
C14_Witness ==
    /\ ewRaisedFor # <<>>
    /\ Len(enriched_interactions) >= 2
    /\ enriched_interactions[1] = ewRaisedFor[1]
    /\ ~IsEnriched(enriched_interactions[1])
    /\ IsEnriched(enriched_interactions[2])

\* The interaction_id of the events of q, in the order of q.
IdsOf(q) == [i \in DOMAIN q |-> q[i].interaction_id]

\* The events on their way, oldest stage first: appended to
\* enriched_interactions, in the worker's hand, in enrichment_queue, taken by
\* get_recent_interactions and not yet added, in interaction_queue.
OnTheWay ==
    IdsOf(enriched_interactions)
        \o (IF ewPc = "enrich" THEN <<ewCur.interaction_id>> ELSE <<>>)
        \o IdsOf(enrichment_queue)
        \o IdsOf(pending)
        \o IdsOf(interaction_queue)

\* C15: with the single enrichment worker no event overtakes an earlier one:
\* the events are accepted by add_interaction and reach enriched_interactions
\* in the order in which the producers put them, and at every moment the
\* stages of the pipeline hold the generated events in that order.
C15_ArrivalOrderPreserved ==
    /\ OnTheWay = [i \in 1..(nextSimId - 1) |-> i]
    /\ IdsOf(added) = [i \in 1..Len(added) |-> i]

\* C15 witness: two events went through the whole pipeline.
C15_Witness ==
    /\ Len(enriched_interactions) = 2
    /\ enriched_interactions[1].interaction_id = 1
    /\ enriched_interactions[2].interaction_id = 2
    /\ interaction_queue = <<>>
    /\ pending = <<>>

\* C21: stop_streaming keeps the queued events (drain policy): the call leaves
\* interaction_queue as it is; also after it, the only step that shortens the
\* queue is get_recent_interactions returning the events at its head; while
\* the simulator is stopped every generated event is still in some stage of
\* the pipeline; and each event handed to add_interactions_batch reaches
\* enriched_interactions.
C21_StopDrainsQueue ==
    /\ [][(is_running /\ ~is_running') =>
              interaction_queue' = interaction_queue]_vars
    /\ [][(Len(interaction_queue') < Len(interaction_queue)) =>
              /\ pending' # <<>>
              /\ pending' \o interaction_queue' = interaction_queue]_vars
    /\ [](~is_running =>
             \A id \in 1..(nextSimId - 1) :
                 \E i \in DOMAIN OnTheWay : OnTheWay[i] = id)
    /\ \A id \in 1..MaxSimEvents :
          []((~is_running /\ \E i \in DOMAIN pending : pending[i].interaction_id = id)
             => <>(\E i \in DOMAIN enriched_interactions :
                      enriched_interactions[i].interaction_id = id))

\* C21 witness: the simulator is stopped, no producer has put an event since
\* the stop, and two events that were queued at the stop have been taken by
\* get_recent_interactions and wait to be added; nothing was added before.
C21_Witness ==
    /\ ~is_running
    /\ \A p \in Producers : pgAfterStop[p] = 0
    /\ Len(pending) = 2
    /\ added = <<>>
    /\ interaction_queue = <<>>

\* C19: the external-factor accumulators only grow: no step removes an entry
\* of weather_impact or sentiment_impact or lowers its interaction_count or
\* count, and no step lowers market_correlation.
C19_ExternalAccumulatorsGrow ==
    [][ /\ \A c \in DOMAIN current_metrics.weather_impact :
              /\ c \in DOMAIN current_metrics'.weather_impact
              /\ current_metrics'.weather_impact[c].interaction_count
                     >= current_metrics.weather_impact[c].interaction_count
        /\ \A c \in DOMAIN current_metrics.sentiment_impact :
              /\ c \in DOMAIN current_metrics'.sentiment_impact
              /\ current_metrics'.sentiment_impact[c].count
                     >= current_metrics.sentiment_impact[c].count
        /\ current_metrics'.market_correlation
               >= current_metrics.market_correlation ]_vars

\* C19 witness: two weather conditions and two news sentiments have entries,
\* one of them counted twice, and market_correlation has grown.
C19_Witness ==
    /\ Cardinality(DOMAIN current_metrics.weather_impact) = 2
    /\ Cardinality(DOMAIN current_metrics.sentiment_impact) = 2
    /\ \E c \in DOMAIN current_metrics.weather_impact :
          current_metrics.weather_impact[c].interaction_count = 2
    /\ current_metrics.market_correlation >= 1
    /\ Len(enriched_interactions) = 3

----------------------------------------------------------------------------
(* Properties of the lookups (SpecApi) *)

WeatherFields == {"temperature", "humidity", "weather_condition",
                  "weather_description", "wind_speed", "pressure",
                  "visibility", "city", "timestamp"}
StockFields   == {"symbol", "price", "change", "change_percent", "volume",
                  "market_sentiment", "timestamp"}
NewsFields    == {"query", "sentiment_score", "sentiment_label",
                  "articles_analyzed", "timestamp"}
EnrichFields  == {"weather_temperature", "weather_condition",
                  "weather_humidity", "market_sentiment",
                  "market_change_percent", "news_sentiment",
                  "news_sentiment_score", "inflation_rate",
                  "consumer_confidence", "city_population",
                  "city_median_income"}

\* C16: get_weather_data, get_stock_market_data and get_news_sentiment return
\* a mapping with the same field names whether the credential is missing, the
\* lookup fails or it succeeds, never an error object, and enrich_interaction
\* never raises and returns the interaction with every enrichment field.
C16_LookupsAlwaysAnswer ==
    /\ ~apiRet.raised
    /\ apiRet.op = "weather" => DOMAIN apiRet.value = WeatherFields
    /\ apiRet.op = "stocks" => DOMAIN apiRet.value = StockFields
    /\ apiRet.op = "news" => DOMAIN apiRet.value = NewsFields
    /\ apiRet.op = "enrich" =>
          /\ EnrichFields \subseteq DOMAIN apiRet.value
          /\ "interaction_id" \in DOMAIN apiRet.value

\* C16 witness: with the weather and stock credentials set, enrich_interaction
\* returned after the weather lookup failed (the mock reading) while the stock
\* data came from a lookup that succeeded.
C16_Witness ==
    /\ apiRet.op = "enrich"
    /\ api_keys["weather"] /\ api_keys["stocks"] /\ ~api_keys["news"]
    /\ apiRet.value.weather_temperature = 18
    /\ apiRet.value.market_change_percent = "0.46"
    /\ apiRet.value.news_sentiment = "neutral"

----------------------------------------------------------------------------
(* Properties of the dashboard data and of concurrent add_interaction calls *)
(* (SpecDashboardData, SpecMetricsShared, SpecMetrics)                      *)

\* C17: the dict returned under 'current_metrics' is a point-in-time copy:
\* whatever add_interaction and update_external_metrics do afterwards, every
\* value read through it stays what it was when it was returned.
C17_SnapshotIsPointInTime ==
    DOMAIN snapshot # {} => VisibleThrough(snapshot) = snapshotSeen

\* C18: when the add_interaction calls of two threads have all returned,
\* total_interactions_today is the number of the calls and
\* total_revenue_today the sum of their revenue, whatever the interleaving.
C18_NoLostUpdate ==
    (\A t \in AddThreads : aiPc[t] = "idle")
        => /\ current_metrics.total_interactions_today = Len(added)
           /\ current_metrics.total_revenue_today = SumRevenue(added)

\* C20: the window statistics are recomputed on a 60-second timer: never do
\* more than 60 seconds go by without a recompute, also while no interaction
\* arrives.
C20_RecomputeEveryPeriod == now - lastCalc <= 60

\* C22: what the dashboard reads when it asks for its data is never a
\* half-applied update_external_metrics: every weather condition it finds has
\* an interaction_count of at least 1 and an avg_revenue equal to
\* total_revenue / interaction_count.
C22_SnapshotNeverTorn ==
    DOMAIN snapshotSeen # {} =>
        \A c \in DOMAIN snapshotSeen.weather_impact :
            LET weather_stats == snapshotSeen.weather_impact[c]
            IN  /\ weather_stats.interaction_count >= 1
                /\ RatioEq(weather_stats.avg_revenue,
                           Ratio(weather_stats.total_revenue,
                                 weather_stats.interaction_count))

\* The enriched interactions with the news sentiment label that brought
\* revenue.
ConvertedWithLabel(label) ==
    { i \in DOMAIN enriched_interactions :
        /\ IsEnriched(enriched_interactions[i])
        /\ enriched_interactions[i].news_sentiment = label
        /\ enriched_interactions[i].revenue > 0 }

\* C23: whenever the worker is between two interactions, for every news
\* sentiment label conversion_rate is the number of enriched interactions with
\* that label and revenue > 0 divided by count.
C23_SentimentConversionRate ==
    ewPc = "loop" =>
        \A label \in DOMAIN current_metrics.sentiment_impact :
            LET sentiment_stats == current_metrics.sentiment_impact[label]
            IN  RatioEq(sentiment_stats.conversion_rate,
                        Ratio(Cardinality(ConvertedWithLabel(label)),
                              sentiment_stats.count))

\* C24: each interaction taken from enrichment_queue is appended to
\* enriched_interactions exactly once, enriched or as it came: whenever the
\* worker is between two interactions, enriched_interactions holds as many
\* items as interactions were taken from the queue.
C24_AppendedExactlyOnce ==
    ewPc = "loop" =>
        Len(enriched_interactions) = Len(added) - Len(enrichment_queue)

\* C25: a calculate_window_metrics run that finds the buffer empty, or no
\* buffered interaction processed within the last window_size minutes, leaves
\* conversion_rate_window and avg_session_duration as they were.
C25_EmptyWindowKeepsMetrics ==
    [][(calcRan' /\ RecentInteractions(interactions_buffer', now') = <<>>) =>
          /\ current_metrics'.conversion_rate_window =
                 current_metrics.conversion_rate_window
          /\ current_metrics'.avg_session_duration =
                 current_metrics.avg_session_duration]_vars

\* C25 witness: calculate_window_metrics has just run on a buffer whose
\* interactions are all older than the window, and the statistics computed
\* from them earlier are still there.
C25_Witness ==
    /\ calcRan
    /\ interactions_buffer # <<>>
    /\ RecentInteractions(interactions_buffer, now) = <<>>
    /\ current_metrics.conversion_rate_window.num > 0
    /\ current_metrics.avg_session_duration.num > 0

----------------------------------------------------------------------------
(* Properties of the lookups together with the cache (SpecApi) *)

\* The value is the mock data of the source.
IsMockData(op, data) ==
    data = (IF op = "weather" THEN MockWeather(data.timestamp)
            ELSE IF op = "stocks" THEN MockStock(data.timestamp)
            ELSE MockNews(data.timestamp))

\* C26: the mock data a fetch function returns when its lookup fails is stored
\* in the cache like the answer of a lookup: after a call that looked up and
\* got mock data, the entry of its key holds that data; and a call for a key
\* whose entry holds mock data younger than cache_duration returns that same
\* data from the cache, looks nothing up and leaves the entry as it is.
C26_FallbackIsCached ==
    /\ [](\A op \in ApiSources :
             (apiRet.op = op /\ api_keys[op] /\ IsMockData(op, apiRet.value))
                => /\ apiRet.key \in DOMAIN cache
                   /\ cache[apiRet.key].data = apiRet.value)
    /\ [][\A op \in ApiSources :
             LET cache_key == apiRet'.key
             IN  (/\ apiRet'.op = op
                  /\ cache_key \in DOMAIN cache
                  /\ CacheValidIn(cache, cache_key, now)
                  /\ IsMockData(op, cache[cache_key].data))
                 => /\ apiRet'.value = cache[cache_key].data
                    /\ cache' = cache
                    /\ last_api_calls' = last_api_calls]_vars

\* C26 witness: get_weather_data was answered from the cache with the mock
\* data an earlier call stored at an earlier time.
C26_Witness ==
    /\ apiRet.op = "weather"
    /\ apiRet.hit
    /\ IsMockData("weather", apiRet.value)
    /\ cache[apiRet.key].timestamp < now

----------------------------------------------------------------------------
(* Progress of the enrichment worker (SpecEnrichFair) *)

\* The item of enriched_interactions at position n is the interaction that
\* was passed to the n-th add_interaction call, enriched or as it came.
AppendedFor(n) ==
    /\ Len(added) >= n
    /\ Len(enriched_interactions) >= n
    /\ [x \in DOMAIN added[n] |-> enriched_interactions[n][x]] = added[n]

\* C27: with the worker thread scheduled again and again and every
\* enrich_interaction call returning or raising, each interaction passed to
\* add_interaction is in the end taken from enrichment_queue and appended to
\* enriched_interactions, and once no more interactions arrive the queue
\* becomes empty and stays empty.
C27_EveryInteractionEnriched ==
    /\ \A n \in 1..MaxEvents : [](Len(added) >= n => <>AppendedFor(n))
    /\ <>[](enrichment_queue = <<>> /\ Len(enriched_interactions) = Len(added))

\* C27 witness: the interactions of all the add_interaction calls, one of them
\* with revenue, have gone through the worker and the queue is empty.
C27_Witness ==
    /\ Len(added) = MaxEvents
    /\ \E n \in 1..MaxEvents : added[n].revenue > 0
    /\ enrichment_queue = <<>>
    /\ ewPc = "loop"
    /\ \A n \in 1..MaxEvents : AppendedFor(n)

----------------------------------------------------------------------------
(* Properties of the totals against the external metrics (SpecAddAndWorker) *)

RECURSIVE SumInteractionCount(_, _)
SumInteractionCount(impact, conditions) ==
    IF conditions = {} THEN 0
    ELSE LET c == CHOOSE x \in conditions : TRUE
         IN  impact[c].interaction_count
                 + SumInteractionCount(impact, conditions \ {c})

\* C28: in every state the interaction_count of all the weather conditions
\* together is at most total_interactions_today.
C28_ExternalCountsWithinTotal ==
    SumInteractionCount(current_metrics.weather_impact,
                        DOMAIN current_metrics.weather_impact)
        <= current_metrics.total_interactions_today

----------------------------------------------------------------------------
(* Properties of the batches and of stop_streaming (SpecSink) *)

\* The events of batch b are in the order in which stream_interaction added
\* them: stream_interaction numbers the events as it adds them.
InArrivalOrder(b) == \A j, k \in DOMAIN b : j < k => b[j] < b[k]

\* C29: every batch handed to the Sink holds at least 1 and at most
\* batch_size events, in the order in which stream_interaction added them; an
\* empty batch is never written.  The same holds of the batch a worker is
\* about to write.
C29_BatchesBoundedAndOrdered ==
    /\ \A i \in DOMAIN sinkLog :
          /\ Len(sinkLog[i].batch) \in 1..BatchSize
          /\ InArrivalOrder(sinkLog[i].batch)
    /\ \A w \in SinkWorkers :
          swPc[w] = "insert"
              => /\ Len(swBatch[w]) \in 1..BatchSize
                 /\ InArrivalOrder(swBatch[w])

\* C29 witness: a full batch of batch_size events and a batch of one event
\* have been written, and the worker has since found the queue empty and
\* written nothing.
C29_Witness ==
    /\ \E i \in DOMAIN sinkLog : Len(sinkLog[i].batch) = BatchSize
    /\ \E i \in DOMAIN sinkLog : Len(sinkLog[i].batch) = 1
    /\ \E w \in SinkWorkers :
          swPc[w] = "sleep" /\ swBatch[w] = <<>> /\ swElapsed[w] # NoTime

\* Every started worker has left its loop, and there is one.
AllWorkersDone ==
    /\ StartedWorkers # {}
    /\ \A w \in StartedWorkers : swPc[w] = "done"

IsPrefix(p, q) == Len(p) <= Len(q) /\ \A k \in DOMAIN p : p[k] = q[k]

\* C30: a worker that tests is_streaming after stop_streaming has cleared it
\* leaves its loop without writing and never comes back; once the workers
\* have left, nothing is written to the Sink and the events in
\* streaming_queue stay there (there is no final flush), until
\* start_streaming_to_bigquery starts a worker again.
C30_NoFlushAfterStop ==
    [][ /\ \A w \in SinkWorkers :
             ( /\ swPc[w] \in {"start", "sleep"}
               /\ swPc'[w] # swPc[w]
               /\ ~is_streaming )
                 => /\ swPc'[w] = "done"
                    /\ sinkLog' = sinkLog
                    /\ streaming_queue' = streaming_queue
        /\ \A w \in SinkWorkers : swPc[w] = "done" => swPc'[w] = "done"
        /\ AllWorkersDone
              => /\ sinkLog' = sinkLog
                 /\ IsPrefix(streaming_queue, streaming_queue') ]_vars

\* C30 witness: the worker wrote a batch, stop_streaming was called, the
\* worker has left its loop and an event is still queued.
C30_Witness ==
    /\ AllWorkersDone
    /\ ~is_streaming
    /\ sinkLog # <<>>
    /\ streaming_queue # <<>>

====
